---- MODULE Spec2Model ----
(***************************************************************************)
(* XBee API-frame engine of sparkfun/XBeeArduino: frame encoding and       *)
(* decoding (apiSendFrame, apiReceiveApiFrame), the timed reader           *)
(* (readBytesWithTimeout), the AT command channel                          *)
(* (apiSendAtCommand, apiSendAtCommandAndGetResponse) and the frame        *)
(* dispatcher (apiHandleFrame) with the LongRange handlers.                *)
(*                                                                         *)
(* The engine is single threaded.  A blocking call is modelled as a        *)
(* sequence of steps, one per iteration of its polling loops, so that the  *)
(* radio module (the environment) can deliver bytes between two polls.     *)
(* `now` is portMillis() measured from the entry of the running top-level  *)
(* call: the code only ever uses differences of portMillis() values.       *)
(***************************************************************************)
EXTENDS Integers, Sequences, FiniteSets, TLC

VARIABLES
    frameIdCntr,          \* XBee.frameIdCntr (uint8_t)
    txStatusReceived,     \* XBee.txStatusReceived
    deliveryStatus,       \* XBee.deliveryStatus (uint8_t)
    UART_READ_TIMEOUT_MS, \* config.h value the build was compiled with
    now,                  \* portMillis(), relative to the running call's entry
    rx,                   \* bytes waiting in the serial receive buffer
    wire,                 \* bytes the running/last apiSendFrame wrote to the UART
    op,                   \* top-level API call in progress, or "idle"
    pc,                   \* position inside that call
    snd,                  \* locals of apiSendFrame
    rd,                   \* locals of readBytesWithTimeout / apiReceiveApiFrame
    frame,                \* the xbee_api_frame_t being received
    at,                   \* locals of apiSendAtCommandAndGetResponse
    ret,                  \* <<value>> returned by the last completed call
    resp,                 \* responseLength / responseBuffer outputs
    handled,              \* frames passed to apiHandleFrame by the running call
    cb,                   \* host callbacks invoked by the running call
    lr,                   \* locals of XBeeLRSendData / XBeeLRConnect, the packet
    hist                  \* history: sends since initialisation, frame ids carried

vars == <<frameIdCntr, txStatusReceived, deliveryStatus, UART_READ_TIMEOUT_MS,
          now, rx, wire, op, pc, snd, rd, frame, at, ret, resp, handled, cb, lr,
          hist>>

session == <<frameIdCntr, txStatusReceived, deliveryStatus>>

-----------------------------------------------------------------------------
(* Program constants *)

XBEE_MAX_FRAME_DATA_SIZE == 256
FRAME_BUF_SIZE == 256
START_DELIMITER == 126
AT_PARAM_MAX == 128
AT_FRAME_DATA_SIZE == 128
LR_FRAME_DATA_SIZE == 128
CONNECTION_TIMEOUT_MS == 6000
CONNECT_POLL_DELAY_MS == 500
CONNECTED_TIMEOUT_MS == 5000
CONNECTED_BUF_SIZE == 1
SEND_DATA_TIMEOUT_MS == 10000
SEND_DATA_POLL_DELAY_MS == 10
SEND_DATA_TIMEOUT_STATUS == 255

API_SEND_SUCCESS == 0
API_SEND_ERROR_INVALID_COMMAND == -2
API_SEND_ERROR_UART_FAILURE == -3
API_SEND_ERROR_FRAME_TOO_LARGE == -4
API_SEND_AT_CMD_ERROR == -5
API_SEND_AT_CMD_RESONSE_TIMEOUT == -6

API_RECEIVE_SUCCESS == 0
API_RECEIVE_ERROR_TIMEOUT_START_DELIMITER == -2
API_RECEIVE_ERROR_INVALID_START_DELIMITER == -3
API_RECEIVE_ERROR_TIMEOUT_LENGTH == -4
API_RECEIVE_ERROR_FRAME_TOO_LARGE == -5
API_RECEIVE_ERROR_TIMEOUT_DATA == -6
API_RECEIVE_ERROR_TIMEOUT_CHECKSUM == -7
API_RECEIVE_ERROR_INVALID_CHECKSUM == -8
API_RECEIVE_ERROR_UART_FAILURE == -9

XBEE_API_TYPE_AT_COMMAND == 8
XBEE_API_TYPE_MODEM_STATUS == 138
XBEE_API_TYPE_AT_RESPONSE == 136
XBEE_API_TYPE_TX_STATUS == 137
XBEE_API_TYPE_LR_JOIN_REQUEST == 20
XBEE_API_TYPE_LR_TX_REQUEST == 80
XBEE_API_TYPE_LR_RX_PACKET == 208
XBEE_API_TYPE_LR_EXPLICIT_RX_PACKET == 209

\* used by XBeeLRHandleTransmitStatus; the header that defines it is not
\* among the sources, the protocol description gives it a code of its own
XBEE_API_TYPE_LR_EXPLICIT_TX_STATUS == 139

-----------------------------------------------------------------------------
(* Bounds of the model.  config.h, which sets UART_READ_TIMEOUT_MS and
   UART_WRITE_TIMEOUT_MS, is not among the sources: both timeouts are
   parameters of the runs. *)

UART_WRITE_TIMEOUT_MS == 2
ReadTimeoutWait == 7      \* UART_READ_TIMEOUT_MS in the command-channel runs
ReadTimeoutCodec == 300   \* UART_READ_TIMEOUT_MS in the codec runs
ReadTimeoutPump == 16     \* UART_READ_TIMEOUT_MS in the pump runs
MaxSends == 258           \* apiSendFrame calls per run of the frame-id runs
MaxPlainSends == 2        \* of which the first few may carry no frame id
MaxArrivals == 2          \* frames the module delivers during one call
MaxCalls == 1             \* top-level calls per run of the command-channel runs
MaxCmdCalls == 2          \* apiSendAtCommand calls per run of the command-frame runs
MaxSendCalls == 1         \* XBeeLRSendData calls per run of the send-data runs
SendArriveBy == 12        \* the module reacts within this many ms of the call
MaxConnectCalls == 1      \* XBeeLRConnect calls per run of the connect runs
ReplyWithin == 2          \* the module answers a query within this many ms
MaxProcessCalls == 2      \* XBeeLRProcess calls per run of the pump runs
MaxNoisyCalls == 1        \* top-level calls per run of the noisy-line runs
MaxLateCalls == 2         \* top-level calls per run of the late-answer runs
MaxResetCalls == 3        \* top-level calls per run of the reset runs
MaxFieldCalls == 1        \* apiReceiveApiFrame calls per run of the partial-frame runs
MaxOrderCalls == 2        \* top-level calls per run of the mixed runs
OrderArriveBy == 5        \* the module sends within this many ms of a call
MaxFlipCalls == 1         \* apiReceiveApiFrame calls per run of the bit-flip runs
MaxGarbage == 3           \* garbage bytes ahead of the frame in the resynchronisation runs
MaxLiveCalls == 1         \* blocking calls per run of the termination runs
LiveArriveBy == 2         \* the line delivers within this many ms of the call

-----------------------------------------------------------------------------
(* Bytes and sequences *)

Byte == 0..255

U8(x) == x % 256

RECURSIVE SumRange(_, _, _)
\* s[lo] + ... + s[hi] (1-based, empty when lo > hi)
SumRange(s, lo, hi) ==
    IF lo > hi THEN 0
    ELSE IF lo = hi THEN s[lo]
    ELSE LET mid == (lo + hi) \div 2
         IN  SumRange(s, lo, mid) + SumRange(s, mid + 1, hi)

Take(s, n) == IF n >= Len(s) THEN s ELSE SubSeq(s, 1, n)
Drop(s, n) == IF n >= Len(s) THEN <<>> ELSE SubSeq(s, n + 1, Len(s))

\* frame->data[i] (0-based) of a received frame: the struct was zeroed by
\* memset, so bytes past the received ones read 0
DataAt(f, i) == IF i < Len(f.data) THEN f.data[i + 1] ELSE 0

-----------------------------------------------------------------------------
(* apiSendFrame: frame assembly *)

\* sum of frame[3] .. frame[len-1] (0-based), subtracted from 0xFF
calculateChecksum(fr, len) == U8(255 - U8(SumRange(fr, 4, len)))

\* 0x7E, (len+1) >> 8, (len+1) & 0xFF, frameType
FrameHeader(frameType, len) ==
    <<START_DELIMITER, U8((len + 1) \div 256), U8(len + 1), frameType>>

\* the bytes apiSendFrame assembles in frame[] when they fit
FrameBytes(frameType, data, len) ==
    LET body == FrameHeader(frameType, len) \o data
    IN  body \o <<calculateChecksum(body, Len(body))>>

\* frameLength after assembly
FrameLength(len) == len + 5

\* apiSendFrame has no bounds check: when the frame does not fit frame[256]
\* memcpy and the checksum store write past the array.  What the UART then
\* sees is undefined: the bytes may survive in the adjacent stack memory,
\* they may be overwritten by other locals before they are sent, or the
\* call may never get as far as writing.
SendFrameOutcomes(frameType, data, len) ==
    LET fb == FrameBytes(frameType, data, len)
    IN  IF FrameLength(len) <= FRAME_BUF_SIZE
        THEN {[crash |-> FALSE, bytes |-> fb]}
        ELSE {[crash |-> FALSE, bytes |-> fb],
              [crash |-> FALSE,
               bytes |-> [i \in 1..Len(fb) |->
                            IF i <= FRAME_BUF_SIZE THEN fb[i] ELSE 0]],
              [crash |-> TRUE, bytes |-> <<>>]}

NextFrameId_NoSkip(c) == U8(c + 1)

\* self->frameIdCntr++; if (self->frameIdCntr == 0) self->frameIdCntr = 1;
NextFrameId(c) == IF U8(c + 1) = 0 THEN 1 ELSE U8(c + 1)

-----------------------------------------------------------------------------
(* Initial states *)

NoFrame == [type |-> 0, length |-> 0, checksum |-> 0, data |-> <<>>]
NoSnd == [frameType |-> 0, data |-> <<>>, frame |-> <<>>, total |-> 0,
          startTime |-> 0, status |-> 0, done |-> FALSE]
NoRd == [field |-> "none", need |-> 0, total |-> 0, startTime |-> 0,
         buf |-> <<>>, length |-> 0, status |-> 0]
NoAt == [command |-> "none", paramLength |-> 0, frameId |-> 0,
         hasBuffer |-> FALSE,
         timeoutMs |-> 0, startTime |-> 0, sendStatus |-> 0,
         gotBytes |-> FALSE, polls |-> 0, responses |-> 0]
NoResp == [len |-> 0, buf |-> <<>>, copied |-> FALSE]
NoLr == [port |-> 0, ack |-> 0, payload |-> <<>>, frameId |-> 0,
         startTime |-> 0, queries |-> 0, response |-> 0, lastQuery |-> 0,
         thisQuery |-> 0, sentBefore |-> 0]
NoHist == [inited |-> FALSE, nSend |-> 0, sentIds |-> <<>>, calls |-> 0,
           arrivals |-> 0, arrived |-> <<>>, noise |-> FALSE,
           late |-> FALSE]

\* XBeeLRCreate: malloc, then only vtable, htable and ctable are assigned;
\* the three session fields hold whatever the heap held.
InitWith(cntrs, stale, readTimeout) ==
    /\ frameIdCntr \in cntrs
    /\ txStatusReceived \in BOOLEAN
    /\ deliveryStatus \in stale
    /\ UART_READ_TIMEOUT_MS = readTimeout
    /\ now = 0
    /\ rx = <<>>
    /\ wire = <<>>
    /\ op = "idle"
    /\ pc = "idle"
    /\ snd = NoSnd
    /\ rd = NoRd
    /\ frame = NoFrame
    /\ at = NoAt
    /\ ret = <<>>
    /\ resp = NoResp
    /\ handled = <<>>
    /\ cb = <<>>
    /\ lr = NoLr
    /\ hist = NoHist

-----------------------------------------------------------------------------
(* The platform port (port_arduino.cpp) *)

\* what portUartRead returns when Serial.read() fails or the serial port is
\* not initialised; in rx it stands for a read that is going to fail
PORT_READ_FAILED == -1

\* portUartRead returns -1 at this poll
ReadFailed(buf) == buf # <<>> /\ Head(buf) = PORT_READ_FAILED

\* portUartRead: one byte when the serial buffer holds one, else nothing
PortUartRead(buf) ==
    IF buf = <<>> \/ ReadFailed(buf) THEN <<>> ELSE <<Head(buf)>>

\* portUartWrite returns what Stream::write reports: a failure (-1), or
\* the number of bytes it took, anything from none to all of them
PortUartWriteResults(remaining) == {-1, 0, 1, remaining}

-----------------------------------------------------------------------------
(* XBeeInit *)

XBeeInit ==
    /\ op = "idle"
    /\ frameIdCntr' = 1
    /\ hist' = [NoHist EXCEPT !.inited = TRUE]
    /\ UNCHANGED <<txStatusReceived, deliveryStatus, UART_READ_TIMEOUT_MS, now,
                   rx, wire, op, pc, snd, rd, frame, at, ret, resp, handled, cb,
                   lr>>

-----------------------------------------------------------------------------
(* apiSendFrame *)

\* frame types whose first data byte is a frame id taken from frameIdCntr
CarriesFrameId(frameType) ==
    frameType \in {XBEE_API_TYPE_AT_COMMAND, XBEE_API_TYPE_LR_JOIN_REQUEST,
                   XBEE_API_TYPE_LR_TX_REQUEST}

\* Entry of apiSendFrame up to the start of the write loop: bump the frame
\* id counter, assemble the frame, take startTime.
ApiSendFrameBegin(frameType, data, len) ==
    /\ frameIdCntr' = NextFrameId(frameIdCntr)
    /\ hist' = [hist EXCEPT
                  !.nSend = @ + 1,
                  !.sentIds = IF CarriesFrameId(frameType) /\ len > 0
                              THEN Append(@, [n |-> hist.nSend + 1,
                                              id |-> data[1]])
                              ELSE @,
                  !.calls = IF op = "idle" THEN @ + 1 ELSE @]
    /\ wire' = <<>>
    /\ \E out \in SendFrameOutcomes(frameType, data, len) :
          IF out.crash
          THEN /\ pc' = "crashed"
               /\ snd' = [NoSnd EXCEPT !.frameType = frameType, !.data = data]
          ELSE /\ pc' = "write"
               /\ snd' = [frameType |-> frameType, data |-> data,
                          frame |-> out.bytes, total |-> 0,
                          startTime |-> now', status |-> 0,
                          done |-> FALSE]

\* if ((portMillis() - startTime) > UART_WRITE_TIMEOUT_MS)
WriteTimedOut(elapsed, timeoutMs) == elapsed > timeoutMs

\* One iteration of the write loop: PortUartWrite, the timeout check, the
\* 1 ms delay.  pc = "sent" is the return of apiSendFrame with snd.status.
WriteStep ==
    /\ pc = "write"
    /\ snd.total < Len(snd.frame)
    /\ \E bw \in PortUartWriteResults(Len(snd.frame) - snd.total) :
          IF bw < 0
          THEN /\ snd' = [snd EXCEPT !.status = API_SEND_ERROR_UART_FAILURE,
                                        !.done = TRUE]
               /\ pc' = "sent"
               /\ UNCHANGED <<wire, now>>
          ELSE /\ wire' = wire \o SubSeq(snd.frame, snd.total + 1, snd.total + bw)
               /\ IF WriteTimedOut(now - snd.startTime, UART_WRITE_TIMEOUT_MS)
                  THEN /\ snd' = [snd EXCEPT
                                    !.total = @ + bw,
                                    !.status = API_SEND_ERROR_UART_FAILURE,
                                    !.done = TRUE]
                       /\ pc' = "sent"
                       /\ UNCHANGED now
                  ELSE /\ now' = now + 1
                       /\ IF snd.total + bw < Len(snd.frame)
                          THEN /\ snd' = [snd EXCEPT !.total = @ + bw]
                               /\ pc' = "write"
                          ELSE /\ snd' = [snd EXCEPT
                                            !.total = @ + bw,
                                            !.status = API_SEND_SUCCESS,
                                            !.done = TRUE]
                               /\ pc' = "sent"
    /\ UNCHANGED <<session, UART_READ_TIMEOUT_MS, rx, op, rd, frame, at, ret,
                   resp, handled, cb, hist, lr>>

\* the host calls apiSendFrame(self, frameType, data, len)
SendFrameCall(frameType, data) ==
    /\ op = "idle"
    /\ op' = "sendFrame"
    /\ now' = 0
    /\ ApiSendFrameBegin(frameType, data, Len(data))
    /\ ret' = <<>>
    /\ handled' = <<>>
    /\ cb' = <<>>
    /\ UNCHANGED <<txStatusReceived, deliveryStatus, UART_READ_TIMEOUT_MS, rx,
                   rd, frame, at, resp, lr>>

SendFrameReturn ==
    /\ op = "sendFrame"
    /\ pc = "sent"
    /\ ret' = <<snd.status>>
    /\ op' = "idle"
    /\ pc' = "idle"
    /\ UNCHANGED <<session, UART_READ_TIMEOUT_MS, now, rx, wire, snd, rd, frame,
                   at, resp, handled, cb, hist, lr>>

-----------------------------------------------------------------------------
(* apiSendAtCommand *)

\* atCommandToString: the two characters of the command, <<>> for NULL
atCommandToString(command) ==
    CASE command = "AT_WR" -> <<87, 82>>
      [] command = "AT_JS" -> <<74, 83>>
      [] OTHER -> <<>>

\* frame_data[] as apiSendAtCommand fills it: frame id, the two characters,
\* the parameter
AtFrameData(id, cmd_str, parameter) == <<id>> \o cmd_str \o parameter

\* frame_data[128] takes 3 + paramLength bytes and paramLength may be 128:
\* a parameter of more than 125 bytes is copied past the array
AtFrameDataOutcomes(id, cmd_str, parameter) ==
    LET fd == AtFrameData(id, cmd_str, parameter)
    IN  IF Len(fd) <= AT_FRAME_DATA_SIZE
        THEN {[crash |-> FALSE, bytes |-> fd]}
        ELSE {[crash |-> FALSE, bytes |-> fd],
              [crash |-> FALSE,
               bytes |-> [i \in 1..Len(fd) |->
                            IF i <= AT_FRAME_DATA_SIZE THEN fd[i] ELSE 0]],
              [crash |-> TRUE, bytes |-> <<>>]}

\* apiSendAtCommand returns st before apiSendFrame is reached
SendRefused(st) ==
    /\ pc' = "sent"
    /\ snd' = [NoSnd EXCEPT !.status = st, !.done = TRUE]
    /\ wire' = <<>>
    /\ hist' = [hist EXCEPT !.calls = IF op = "idle" THEN @ + 1 ELSE @]
    /\ UNCHANGED frameIdCntr

\* the call does not survive an access outside an object
SendCrashed ==
    /\ pc' = "crashed"
    /\ snd' = NoSnd
    /\ wire' = <<>>
    /\ hist' = [hist EXCEPT !.calls = IF op = "idle" THEN @ + 1 ELSE @]
    /\ UNCHANGED frameIdCntr

ParamTooLarge_Never(paramLength) == paramLength > 255

\* if (paramLength > 128) return API_SEND_ERROR_FRAME_TOO_LARGE;
ParamTooLarge(paramLength) == paramLength > AT_PARAM_MAX

\* Entry of apiSendAtCommand up to the start of the write loop of
\* apiSendFrame.  cmd_str[0] and cmd_str[1] are read before cmd_str is
\* compared with NULL.
\* cmd_str[0] and cmd_str[1] are read before cmd_str is compared with NULL:
\* for a command without a mnemonic the read through the null pointer may
\* trap, may yield whatever lies at address 0 and then reach the test, or
\* the test may have been removed by the compiler (the pointer has been
\* dereferenced already) and the frame is sent with those two bytes
NullMnemonics == {<<0, 0>>, <<255, 255>>}

ApiSendAtCommandBegin(command, parameter) ==
    LET cmd_str == atCommandToString(command)
    IN  IF ParamTooLarge(Len(parameter))
        THEN SendRefused(API_SEND_ERROR_FRAME_TOO_LARGE)
        ELSE IF cmd_str = <<>>
        THEN \/ SendCrashed
             \/ SendRefused(API_SEND_ERROR_INVALID_COMMAND)
             \/ \E junk \in NullMnemonics :
                   \E fd \in AtFrameDataOutcomes(frameIdCntr, junk,
                                                 parameter) :
                      IF fd.crash
                      THEN SendCrashed
                      ELSE ApiSendFrameBegin(XBEE_API_TYPE_AT_COMMAND,
                                             fd.bytes, Len(fd.bytes))
        ELSE \E fd \in AtFrameDataOutcomes(frameIdCntr, cmd_str, parameter) :
                IF fd.crash
                THEN SendCrashed
                ELSE ApiSendFrameBegin(XBEE_API_TYPE_AT_COMMAND, fd.bytes,
                                       Len(fd.bytes))

\* the host calls apiSendAtCommand(self, command, parameter, paramLength)
SendAtCommandCall(command, parameter) ==
    /\ op = "idle"
    /\ op' = "sendAtCommand"
    /\ now' = 0
    /\ ApiSendAtCommandBegin(command, parameter)
    /\ at' = [NoAt EXCEPT !.command = command,
                          !.paramLength = Len(parameter),
                          !.frameId = frameIdCntr]
    /\ ret' = <<>>
    /\ handled' = <<>>
    /\ cb' = <<>>
    /\ UNCHANGED <<txStatusReceived, deliveryStatus, UART_READ_TIMEOUT_MS, rx,
                   rd, frame, resp, lr>>

SendAtCommandReturn ==
    /\ op = "sendAtCommand"
    /\ pc = "sent"
    /\ ret' = <<snd.status>>
    /\ op' = "idle"
    /\ pc' = "idle"
    /\ at' = NoAt
    /\ UNCHANGED <<session, UART_READ_TIMEOUT_MS, now, rx, wire, snd, rd, frame,
                   resp, handled, cb, hist, lr>>

-----------------------------------------------------------------------------
(* SendJoinReqApiFrame *)

\* uint8_t frame_id = self->frameIdCntr; apiSendFrame(self,
\* XBEE_API_TYPE_LR_JOIN_REQUEST, &frame_id, 1);
SendJoinReqApiFrame ==
    /\ op = "idle"
    /\ op' = "joinReq"
    /\ now' = 0
    /\ ApiSendFrameBegin(XBEE_API_TYPE_LR_JOIN_REQUEST, <<frameIdCntr>>, 1)
    /\ ret' = <<>>
    /\ handled' = <<>>
    /\ cb' = <<>>
    /\ UNCHANGED <<txStatusReceived, deliveryStatus, UART_READ_TIMEOUT_MS, rx,
                   rd, frame, at, resp, lr>>

\* the status of apiSendFrame is dropped
SendJoinReqReturn ==
    /\ op = "joinReq"
    /\ pc = "sent"
    /\ op' = "idle"
    /\ pc' = "idle"
    /\ UNCHANGED <<session, UART_READ_TIMEOUT_MS, now, rx, wire, snd, rd, frame,
                   at, ret, resp, handled, cb, hist, lr>>

-----------------------------------------------------------------------------
(* readBytesWithTimeout and apiReceiveApiFrame *)

FieldTimeout_Data(field) == API_RECEIVE_ERROR_TIMEOUT_DATA

\* the value apiReceiveApiFrame returns when the readBytesWithTimeout of a
\* field fails
FieldTimeout(field) ==
    CASE field = "start"    -> API_RECEIVE_ERROR_TIMEOUT_START_DELIMITER
      [] field = "length"   -> API_RECEIVE_ERROR_TIMEOUT_LENGTH
      [] field = "data"     -> API_RECEIVE_ERROR_TIMEOUT_DATA
      [] field = "checksum" -> API_RECEIVE_ERROR_TIMEOUT_CHECKSUM

\* a fresh readBytesWithTimeout(buffer, need, UART_READ_TIMEOUT_MS) at time t
ReadField(field, need, length, t) ==
    [field |-> field, need |-> need, total |-> 0, startTime |-> t,
     buf |-> <<>>, length |-> length, status |-> 0]

\* apiReceiveApiFrame returns st
Received(r, st) == [r EXCEPT !.status = st]

FrameChecksumOk_IgnoreChecksumByte(data, checksum) ==
    U8(SumRange(data, 1, Len(data))) = 255

FrameChecksumOk_SevenBits(data, checksum) ==
    (checksum + SumRange(data, 1, Len(data))) % 128 = 127

\* uint8_t checksum = frame->checksum; checksum += frame->data[i] for every
\* i < length; valid when the result is 0xFF
FrameChecksumOk(data, checksum) ==
    U8(checksum + SumRange(data, 1, Len(data))) = 255

\* (length_bytes[0] << 8) | length_bytes[1]
LengthOf(lengthBytes) == lengthBytes[1] * 256 + lengthBytes[2]

IsStartDelimiter_Any(b) == TRUE

\* if (start_delimiter != 0x7E): the negation of the test
IsStartDelimiter(b) == b = START_DELIMITER

LengthTooLarge_Never(length) == FALSE

\* if (length > XBEE_MAX_FRAME_DATA_SIZE)
LengthTooLarge(length) == length > XBEE_MAX_FRAME_DATA_SIZE

\* The part of apiReceiveApiFrame that follows a field read that succeeded at
\* time t with the bytes in r.buf: <<pc, rd, frame>> afterwards.  A data
\* field of length 0 is read by a readBytesWithTimeout that returns at once.
AfterField(r, f, t) ==
    CASE r.field = "start" ->
            IF ~IsStartDelimiter(r.buf[1])
            THEN <<"received",
                   Received(r, API_RECEIVE_ERROR_INVALID_START_DELIMITER), f>>
            ELSE <<"read", ReadField("length", 2, 0, t), f>>
      [] r.field = "length" ->
            IF LengthTooLarge(LengthOf(r.buf))
            THEN <<"received",
                   Received(r, API_RECEIVE_ERROR_FRAME_TOO_LARGE), f>>
            ELSE IF LengthOf(r.buf) = 0
                 THEN <<"read", ReadField("checksum", 1, 0, t), f>>
                 ELSE <<"read",
                        ReadField("data", LengthOf(r.buf), LengthOf(r.buf), t),
                        f>>
      [] r.field = "data" ->
            <<"read", ReadField("checksum", 1, r.length, t),
              [f EXCEPT !.data = r.buf]>>
      [] r.field = "checksum" ->
            LET g == [f EXCEPT !.checksum = r.buf[1],
                               !.length = r.length,
                               !.type = DataAt(f, 0)]
            IN  <<"received",
                  Received(r, IF FrameChecksumOk(g.data, g.checksum)
                              THEN API_RECEIVE_SUCCESS
                              ELSE API_RECEIVE_ERROR_INVALID_CHECKSUM),
                  g>>

ReadTimedOut_Strict(elapsed, timeoutMs) == elapsed > timeoutMs

\* if (portMillis() - startTime >= timeoutMs) return API_RECEIVE_ERROR_TIMEOUT_DATA;
ReadTimedOut(elapsed, timeoutMs) == elapsed >= timeoutMs

\* One iteration of the loop of readBytesWithTimeout: PortUartRead (a
\* negative value is not added and not looked at any further), the
\* timeout check (made after the read, whatever it returned), the 1 ms
\* delay; when the field is complete, apiReceiveApiFrame goes on to the
\* next field or returns (pc = "received", rd.status).
ReadStep ==
    /\ pc = "read"
    /\ rd.total < rd.need
    /\ LET got == PortUartRead(rx)
           r1 == [rd EXCEPT !.total = @ + Len(got), !.buf = @ \o got]
       IN  /\ rx' = IF ReadFailed(rx) THEN Tail(rx) ELSE Drop(rx, Len(got))
           /\ at' = IF Len(got) > 0 THEN [at EXCEPT !.gotBytes = TRUE] ELSE at
           /\ IF ReadTimedOut(now - rd.startTime, UART_READ_TIMEOUT_MS)
              THEN /\ pc' = "received"
                   /\ rd' = Received(r1, FieldTimeout(rd.field))
                   /\ frame' = IF rd.field = "data"
                               THEN [frame EXCEPT !.data = r1.buf]
                               ELSE IF rd.field = "checksum" /\ r1.buf # <<>>
                               THEN [frame EXCEPT !.checksum = r1.buf[1]]
                               ELSE frame
                   /\ UNCHANGED now
              ELSE /\ now' = now + 1
                   /\ IF r1.total < r1.need
                      THEN /\ pc' = "read"
                           /\ rd' = r1
                           /\ UNCHANGED frame
                      ELSE LET nxt == AfterField(r1, frame, now + 1)
                           IN  /\ pc' = nxt[1]
                               /\ rd' = nxt[2]
                               /\ frame' = nxt[3]
    /\ UNCHANGED <<session, UART_READ_TIMEOUT_MS, wire, op, snd, ret, resp,
                   handled, cb, hist, lr>>

\* the host calls apiReceiveApiFrame(self, &frame): memset, then the read of
\* the start delimiter begins
ReceiveCall ==
    /\ op = "idle"
    /\ op' = "receive"
    /\ now' = 0
    /\ pc' = "read"
    /\ rd' = ReadField("start", 1, 0, 0)
    /\ frame' = NoFrame
    /\ ret' = <<>>
    /\ handled' = <<>>
    /\ cb' = <<>>
    /\ hist' = [hist EXCEPT !.calls = @ + 1]
    /\ UNCHANGED <<session, UART_READ_TIMEOUT_MS, rx, wire, snd, at, resp, lr>>

ReceiveReturn ==
    /\ op = "receive"
    /\ pc = "received"
    /\ ret' = <<rd.status>>
    /\ op' = "idle"
    /\ pc' = "idle"
    /\ UNCHANGED <<session, UART_READ_TIMEOUT_MS, now, rx, wire, snd, rd, frame,
                   at, resp, handled, cb, hist, lr>>

-----------------------------------------------------------------------------
(* apiHandleFrame and the handlers of the LR variant *)

\* (int8_t) of a byte
Int8(b) == IF b >= 128 THEN b - 256 ELSE b

PayloadAt_FromPort(f, off, payloadSize) ==
    Take(Drop(f.data, off - 1), payloadSize)

\* the bytes of the received frame from data[off] on, payloadSize of them at
\* most (what the payload pointer of the packet can reach inside the frame)
PayloadAt(f, off, payloadSize) ==
    IF off >= Len(f.data) THEN <<>>
    ELSE Take(Drop(f.data, off), payloadSize)

NoPacket == [event |-> "none", frameId |-> 0, status |-> 0, port |-> 0,
             payloadSize |-> 0, payload |-> <<>>, rssi |-> 0, snr |-> 0,
             dr |-> 0, slot |-> 0, counter |-> 0]

\* XBeeLRHandleTransmitStatus: the packet handed to OnSendCallback
OnSendPacket(f) ==
    [NoPacket EXCEPT !.event = "OnSend",
                     !.frameId = DataAt(f, 1),
                     !.status = DataAt(f, 2)]

\* XBeeLRHandleRxPacket: the packet handed to OnReceiveCallback
OnReceivePacket(f) ==
    IF f.type = XBEE_API_TYPE_LR_EXPLICIT_RX_PACKET
    THEN [NoPacket EXCEPT
            !.event = "OnReceive",
            !.port = DataAt(f, 1),
            !.rssi = Int8(DataAt(f, 2)),
            !.snr = Int8(DataAt(f, 3)),
            !.dr = DataAt(f, 4) % 16,
            !.slot = DataAt(f, 4) \div 16,
            !.counter = DataAt(f, 5) * 16777216 + DataAt(f, 6) * 65536
                        + DataAt(f, 7) * 256 + DataAt(f, 8),
            !.payloadSize = U8(f.length - 10),
            !.payload = PayloadAt(f, 10, U8(f.length - 10))]
    ELSE [NoPacket EXCEPT
            !.event = "OnReceive",
            !.port = DataAt(f, 1),
            !.payloadSize = U8(f.length - 2),
            !.payload = PayloadAt(f, 2, U8(f.length - 2))]

ApiHandleFrame_Stale(f) ==
    /\ handled' = Append(handled, IF handled = <<>> THEN f
                                  ELSE handled[Len(handled)])
    /\ UNCHANGED <<txStatusReceived, deliveryStatus, cb>>

\* apiHandleFrame(self, frame): the switch on frame.type.  The AT-response
\* and modem-status handlers only print.
ApiHandleFrame(f) ==
    /\ handled' = Append(handled, f)
    /\ CASE f.type = XBEE_API_TYPE_TX_STATUS ->
               /\ deliveryStatus' = DataAt(f, 2)
               /\ txStatusReceived' = TRUE
               /\ cb' = Append(cb, OnSendPacket(f))
         [] f.type \in {XBEE_API_TYPE_LR_RX_PACKET,
                        XBEE_API_TYPE_LR_EXPLICIT_RX_PACKET} ->
               /\ cb' = Append(cb, OnReceivePacket(f))
               /\ UNCHANGED <<txStatusReceived, deliveryStatus>>
         [] OTHER ->
               UNCHANGED <<txStatusReceived, deliveryStatus, cb>>

-----------------------------------------------------------------------------
(* apiSendAtCommandAndGetResponse *)

\* the host calls apiSendAtCommandAndGetResponse(self, command, parameter,
\* paramLength, responseBuffer, &responseLength, timeoutMs); the value of
\* apiSendAtCommand is not looked at
AtCmdCall(command, parameter, hasBuffer, timeoutMs) ==
    /\ op = "idle"
    /\ op' = "atCmd"
    /\ now' = 0
    /\ ApiSendAtCommandBegin(command, parameter)
    /\ at' = [NoAt EXCEPT !.command = command,
                          !.paramLength = Len(parameter),
                          !.frameId = frameIdCntr,
                          !.hasBuffer = hasBuffer, !.timeoutMs = timeoutMs]
    /\ resp' = NoResp
    /\ ret' = <<>>
    /\ handled' = <<>>
    /\ cb' = <<>>
    /\ UNCHANGED <<txStatusReceived, deliveryStatus, UART_READ_TIMEOUT_MS, rx,
                   rd, frame, lr>>

\* apiSendAtCommand has returned: startTime = PortMillis(), and the first
\* apiReceiveApiFrame of the loop begins
AtCmdSent ==
    /\ op = "atCmd"
    /\ pc = "sent"
    /\ at' = [at EXCEPT !.sendStatus = snd.status, !.startTime = now,
                        !.polls = 1]
    /\ pc' = "read"
    /\ rd' = ReadField("start", 1, 0, now)
    /\ frame' = NoFrame
    /\ UNCHANGED <<session, UART_READ_TIMEOUT_MS, now, rx, wire, op, snd, ret,
                   resp, handled, cb, hist, lr>>

AtStatusByte_FrameId(f) == DataAt(f, 1)

\* frame.data[4]
AtStatusByte(f) == DataAt(f, 4)

\* *responseLength = frame.length - 5, a uint8_t
ResponseLength(f) == U8(f.length - 5)

\* memcpy(responseBuffer, &frame.data[5], *responseLength): what lands in
\* the caller's buffer.  A source range that leaves frame.data[256] reads
\* memory that is not part of the frame.
ResponseOutcomes(f, len) ==
    IF 5 + len <= XBEE_MAX_FRAME_DATA_SIZE
    THEN {[crash |-> FALSE, bytes |-> [i \in 1..len |-> DataAt(f, 4 + i)]]}
    ELSE {[crash |-> FALSE,
           bytes |-> [i \in 1..len |->
                        IF 4 + i < XBEE_MAX_FRAME_DATA_SIZE
                        THEN DataAt(f, 4 + i) ELSE junk]] : junk \in {0, 255}}
         \cup {[crash |-> TRUE, bytes |-> <<>>]}

\* if ((PortMillis() - startTime) >= timeoutMs)
AtTimedOut(elapsed, timeoutMs) == elapsed >= timeoutMs

\* apiSendAtCommandAndGetResponse returns v
AtCmdReturn(v) ==
    /\ ret' = <<v>>
    /\ op' = "idle"
    /\ pc' = "idle"

\* apiSendAtCommandAndGetResponse returns v to XBeeLRConnected
ConnectedReturn(v) ==
    /\ ret' = <<v>>
    /\ pc' = "queried"
    /\ UNCHANGED op

IsAtResponse_SameId(f, id) ==
    f.type = XBEE_API_TYPE_AT_RESPONSE /\ DataAt(f, 1) = id

\* if (frame.type == XBEE_API_TYPE_AT_RESPONSE): the frame id of the request
\* is not part of the test
IsAtResponse(f, id) == f.type = XBEE_API_TYPE_AT_RESPONSE

\* return of apiSendAtCommandAndGetResponse to the host, or to
\* XBeeLRConnected when XBeeLRConnect made the call
AtLoopReturn(v) ==
    IF op = "connect" THEN ConnectedReturn(v) ELSE AtCmdReturn(v)

\* The body of the loop after apiReceiveApiFrame returned rd.status: the
\* AT-response branch, apiHandleFrame for any other frame, the timeout
\* check, the 1 ms delay and the start of the next apiReceiveApiFrame.
AtLoopBody ==
    /\ pc = "received"
    /\ IF rd.status = API_RECEIVE_SUCCESS /\ IsAtResponse(frame, at.frameId)
       THEN /\ at' = [at EXCEPT !.responses = @ + 1]
            /\ IF AtStatusByte(frame) = 0
               THEN IF at.hasBuffer /\ ResponseLength(frame) # 0
                    THEN \E out \in ResponseOutcomes(frame,
                                                     ResponseLength(frame)) :
                            IF out.crash
                            THEN /\ pc' = "crashed"
                                 /\ resp' = [len |-> ResponseLength(frame),
                                             buf |-> <<>>, copied |-> FALSE]
                                 /\ UNCHANGED <<op, ret>>
                            ELSE /\ resp' = [len |-> ResponseLength(frame),
                                             buf |-> out.bytes,
                                             copied |-> TRUE]
                                 /\ AtLoopReturn(API_SEND_SUCCESS)
                    ELSE /\ resp' = [len |-> ResponseLength(frame),
                                     buf |-> <<>>, copied |-> FALSE]
                         /\ AtLoopReturn(API_SEND_SUCCESS)
               ELSE /\ resp' = [len |-> ResponseLength(frame),
                                buf |-> <<>>, copied |-> FALSE]
                    /\ AtLoopReturn(API_SEND_AT_CMD_ERROR)
            /\ UNCHANGED <<txStatusReceived, deliveryStatus, handled, cb, now,
                           rd, frame>>
       ELSE /\ IF rd.status = API_RECEIVE_SUCCESS
               THEN ApiHandleFrame(frame)
               ELSE UNCHANGED <<txStatusReceived, deliveryStatus, handled, cb>>
            /\ IF AtTimedOut(now - at.startTime, at.timeoutMs)
               THEN /\ AtLoopReturn(API_SEND_AT_CMD_RESONSE_TIMEOUT)
                    /\ UNCHANGED <<now, rd, frame, at>>
               ELSE /\ now' = now + 1
                    /\ pc' = "read"
                    /\ rd' = ReadField("start", 1, 0, now + 1)
                    /\ frame' = NoFrame
                    /\ at' = [at EXCEPT !.polls = @ + 1]
                    /\ UNCHANGED <<op, ret>>
            /\ UNCHANGED resp
    /\ UNCHANGED <<frameIdCntr, UART_READ_TIMEOUT_MS, rx, wire, snd, hist, lr>>

\* the loop of a call made by the host
AtCmdLoop ==
    /\ op = "atCmd"
    /\ AtLoopBody

-----------------------------------------------------------------------------
(* XBeeLRProcess *)

ProcessDispatches_Always(status) == TRUE

ProcessDispatches_Never(status) == FALSE

\* if (status == API_SEND_SUCCESS) apiHandleFrame(self, frame);
ProcessDispatches(status) == status = API_SEND_SUCCESS

\* XBeeLRProcess after its apiReceiveApiFrame returned rd.status: the frame
\* is dispatched, or the error is printed and forgotten
ProcessEnd ==
    IF ProcessDispatches(rd.status)
    THEN ApiHandleFrame(frame)
    ELSE UNCHANGED <<txStatusReceived, deliveryStatus, handled, cb>>

\* the host calls XBeeLRProcess(self) (XBeeProcess): the receive begins
ProcessCall ==
    /\ op = "idle"
    /\ op' = "process"
    /\ now' = 0
    /\ pc' = "read"
    /\ rd' = ReadField("start", 1, 0, 0)
    /\ frame' = NoFrame
    /\ ret' = <<>>
    /\ handled' = <<>>
    /\ cb' = <<>>
    /\ hist' = [hist EXCEPT !.calls = @ + 1]
    /\ UNCHANGED <<session, UART_READ_TIMEOUT_MS, rx, wire, snd, at, resp, lr>>

ProcessReturn ==
    /\ op = "process"
    /\ pc = "received"
    /\ ProcessEnd
    /\ op' = "idle"
    /\ pc' = "idle"
    /\ UNCHANGED <<frameIdCntr, UART_READ_TIMEOUT_MS, now, rx, wire, snd, rd,
                   frame, at, ret, resp, lr, hist>>

-----------------------------------------------------------------------------
(* XBeeLRDisconnect, XBeeLRSoftReset, XBeeLRHardReset *)

\* the three functions whose body is empty or a single return
NoOps == {"disconnect", "softReset", "hardReset"}

NoOpResult_False(name) == <<0>>

\* return true; in XBeeLRDisconnect and XBeeLRSoftReset, XBeeLRHardReset is
\* void
NoOpResult(name) == IF name = "hardReset" THEN <<>> ELSE <<1>>

\* the host calls XBeeDisconnect, XBeeSoftReset or XBeeHardReset, which call
\* the function of the table
NoOpCall(name) ==
    /\ op = "idle"
    /\ op' = name
    /\ pc' = "body"
    /\ ret' = <<>>
    /\ hist' = [hist EXCEPT !.calls = @ + 1]
    /\ UNCHANGED <<session, UART_READ_TIMEOUT_MS, now, rx, wire, snd, rd,
                   frame, at, resp, handled, cb, lr>>

NoOpReturn ==
    /\ op \in NoOps
    /\ pc = "body"
    /\ ret' = NoOpResult(op)
    /\ op' = "idle"
    /\ pc' = "idle"
    /\ UNCHANGED <<session, UART_READ_TIMEOUT_MS, now, rx, wire, snd, rd,
                   frame, at, resp, handled, cb, hist, lr>>

-----------------------------------------------------------------------------
(* XBeeLRSendData *)

\* frame_data[] as XBeeLRSendData fills it: frame id, port, ack & 0x01, the
\* payload
TxFrameData(id, port, ack, payload) == <<id, port, ack % 2>> \o payload

\* frame_data[128] takes 3 + payloadSize bytes and payloadSize is not
\* checked: a payload of more than 125 bytes is copied past the array
TxFrameDataOutcomes(id, port, ack, payload) ==
    LET fd == TxFrameData(id, port, ack, payload)
    IN  IF Len(fd) <= LR_FRAME_DATA_SIZE
        THEN {[crash |-> FALSE, bytes |-> fd]}
        ELSE {[crash |-> FALSE, bytes |-> fd],
              [crash |-> FALSE,
               bytes |-> [i \in 1..Len(fd) |->
                            IF i <= LR_FRAME_DATA_SIZE THEN fd[i] ELSE 0]],
              [crash |-> TRUE, bytes |-> <<>>]}

\* the host calls XBeeLRSendData(self, packet) (XBeeSendData): the packet
\* gets its frame id, the TX request is assembled and apiSendFrame begins
SendDataCall(port, ack, payload) ==
    /\ op = "idle"
    /\ op' = "sendData"
    /\ now' = 0
    /\ lr' = [NoLr EXCEPT !.port = port, !.ack = ack, !.payload = payload,
                          !.frameId = frameIdCntr]
    /\ \E fd \in TxFrameDataOutcomes(frameIdCntr, port, ack, payload) :
          IF fd.crash
          THEN SendCrashed
          ELSE ApiSendFrameBegin(XBEE_API_TYPE_LR_TX_REQUEST, fd.bytes,
                                 Len(fd.bytes))
    /\ ret' = <<>>
    /\ handled' = <<>>
    /\ cb' = <<>>
    /\ UNCHANGED <<txStatusReceived, deliveryStatus, UART_READ_TIMEOUT_MS, rx,
                   rd, frame, at, resp>>

\* XBeeLRSendData returns v
SendDataReturn(v) ==
    /\ ret' = <<v>>
    /\ op' = "idle"
    /\ pc' = "idle"

\* if (send_status != API_SEND_SUCCESS) return 0;
SendFailedResult == 0

\* apiSendFrame has returned.  A failed send ends the call; otherwise
\* startTime = portMillis(), txStatusReceived = false, and the first
\* XBeeLRProcess of the loop begins.
SendDataSent ==
    /\ op = "sendData"
    /\ pc = "sent"
    /\ IF snd.status # API_SEND_SUCCESS
       THEN /\ SendDataReturn(SendFailedResult)
            /\ UNCHANGED <<txStatusReceived, lr, rd, frame>>
       ELSE /\ lr' = [lr EXCEPT !.startTime = now]
            /\ txStatusReceived' = FALSE
            /\ pc' = "read"
            /\ rd' = ReadField("start", 1, 0, now)
            /\ frame' = NoFrame
            /\ UNCHANGED <<op, ret>>
    /\ UNCHANGED <<frameIdCntr, deliveryStatus, UART_READ_TIMEOUT_MS, now, rx,
                   wire, snd, at, resp, handled, cb, hist>>

\* while ((portMillis() - startTime) < SEND_DATA_TIMEOUT_MS)
SendDataWaiting(elapsed) == elapsed < SEND_DATA_TIMEOUT_MS

\* The body of the wait loop after the apiReceiveApiFrame inside
\* XBeeLRProcess returned: the dispatch, the test of txStatusReceived, the
\* 10 ms delay, the loop condition and the start of the next XBeeLRProcess.
SendDataLoop ==
    /\ op = "sendData"
    /\ pc = "received"
    /\ ProcessEnd
    /\ IF txStatusReceived'
       THEN /\ SendDataReturn(deliveryStatus')
            /\ UNCHANGED <<now, rd, frame>>
       ELSE /\ now' = now + SEND_DATA_POLL_DELAY_MS
            /\ IF SendDataWaiting(now' - lr.startTime)
               THEN /\ pc' = "read"
                    /\ rd' = ReadField("start", 1, 0, now')
                    /\ frame' = NoFrame
                    /\ UNCHANGED <<op, ret>>
               ELSE /\ SendDataReturn(SEND_DATA_TIMEOUT_STATUS)
                    /\ UNCHANGED <<rd, frame>>
    /\ UNCHANGED <<frameIdCntr, UART_READ_TIMEOUT_MS, rx, wire, snd, at, resp,
                   lr, hist>>

-----------------------------------------------------------------------------
(* XBeeLRConnected and XBeeLRConnect *)

\* XBeeLRConnected up to the start of the write loop: response = 0, then
\* apiSendAtCommandAndGetResponse(self, AT_JS, NULL, 0, &response,
\* &responseLength, 5000)
ConnectedBegin_Rejoin ==
    /\ ApiSendFrameBegin(XBEE_API_TYPE_LR_JOIN_REQUEST, <<frameIdCntr>>, 1)
    /\ at' = [NoAt EXCEPT !.command = "AT_JS", !.hasBuffer = TRUE,
                          !.timeoutMs = CONNECTED_TIMEOUT_MS]
    /\ resp' = NoResp

ConnectedBegin ==
    /\ ApiSendAtCommandBegin("AT_JS", <<>>)
    /\ at' = [NoAt EXCEPT !.command = "AT_JS", !.hasBuffer = TRUE,
                          !.timeoutMs = CONNECTED_TIMEOUT_MS]
    /\ resp' = NoResp

\* return response: the byte the AT call copied into the one-byte buffer,
\* 0 when it copied nothing.  A response of more than one byte is copied
\* past `response`.
ConnectedOutcomes(r) ==
    IF ~r.copied THEN {[crash |-> FALSE, value |-> 0]}
    ELSE IF r.len <= CONNECTED_BUF_SIZE
         THEN {[crash |-> FALSE, value |-> r.buf[1]]}
         ELSE {[crash |-> FALSE, value |-> r.buf[1]],
               [crash |-> TRUE, value |-> 0]}

\* XBeeLRConnect returns v (1 for true, 0 for false)
ConnectReturn(v) ==
    /\ ret' = <<v>>
    /\ op' = "idle"
    /\ pc' = "idle"

ConnectWaiting_FirstOnly(elapsed) == elapsed < 1

\* while ((portMillis() - startTime) < CONNECTION_TIMEOUT_MS)
ConnectWaiting(elapsed) == elapsed < CONNECTION_TIMEOUT_MS

\* The loop condition of XBeeLRConnect at time now', with the locals l: the
\* next XBeeLRConnected begins, or the call returns false.
ConnectLoopTop(l) ==
    IF ConnectWaiting(now' - l.startTime)
    THEN /\ ConnectedBegin
         /\ lr' = [l EXCEPT !.queries = @ + 1, !.thisQuery = now']
         /\ UNCHANGED <<op, ret>>
    ELSE /\ ConnectReturn(0)
         /\ lr' = l
         /\ UNCHANGED <<frameIdCntr, hist, wire, snd, at, resp>>

\* the host calls XBeeLRConnect(self) (XBeeConnect): SendJoinReqApiFrame
\* begins
ConnectCall ==
    /\ op = "idle"
    /\ op' = "connect"
    /\ now' = 0
    /\ ApiSendFrameBegin(XBEE_API_TYPE_LR_JOIN_REQUEST, <<frameIdCntr>>, 1)
    /\ lr' = [NoLr EXCEPT !.sentBefore = hist.nSend]
    /\ ret' = <<>>
    /\ handled' = <<>>
    /\ cb' = <<>>
    /\ UNCHANGED <<txStatusReceived, deliveryStatus, UART_READ_TIMEOUT_MS, rx,
                   rd, frame, at, resp>>

\* SendJoinReqApiFrame has returned (its status is dropped): startTime =
\* portMillis(), the loop condition, the first XBeeLRConnected
ConnectJoinSent ==
    /\ op = "connect"
    /\ pc = "sent"
    /\ lr.queries = 0
    /\ now' = now
    /\ ConnectLoopTop([lr EXCEPT !.startTime = now])
    /\ UNCHANGED <<txStatusReceived, deliveryStatus, UART_READ_TIMEOUT_MS, rx,
                   rd, frame, handled, cb>>

\* apiSendAtCommand of the query has returned: startTime = PortMillis() of
\* the AT call, and its first apiReceiveApiFrame begins
ConnectQuerySent ==
    /\ op = "connect"
    /\ pc = "sent"
    /\ lr.queries > 0
    /\ at' = [at EXCEPT !.sendStatus = snd.status, !.startTime = now,
                        !.polls = 1]
    /\ pc' = "read"
    /\ rd' = ReadField("start", 1, 0, now)
    /\ frame' = NoFrame
    /\ UNCHANGED <<session, UART_READ_TIMEOUT_MS, now, rx, wire, op, snd, ret,
                   resp, handled, cb, hist, lr>>

\* the wait loop of the query
ConnectLoop ==
    /\ op = "connect"
    /\ lr.queries > 0
    /\ AtLoopBody

\* XBeeLRConnected returns response: a non-zero value ends XBeeLRConnect
\* with true; otherwise the 500 ms delay, the loop condition and the next
\* query or the return of false
ConnectQueried ==
    /\ op = "connect"
    /\ pc = "queried"
    /\ \E out \in ConnectedOutcomes(resp) :
          IF out.crash
          THEN /\ pc' = "crashed"
               /\ UNCHANGED <<frameIdCntr, now, wire, op, snd, at, ret, resp,
                              lr, hist>>
          ELSE IF out.value # 0
          THEN /\ ConnectReturn(1)
               /\ lr' = [lr EXCEPT !.response = out.value]
               /\ UNCHANGED <<frameIdCntr, now, wire, snd, at, resp, hist>>
          ELSE /\ now' = now + CONNECT_POLL_DELAY_MS
               /\ ConnectLoopTop([lr EXCEPT !.response = out.value,
                                            !.lastQuery = now])
    /\ UNCHANGED <<txStatusReceived, deliveryStatus, UART_READ_TIMEOUT_MS, rx,
                   rd, frame, handled, cb>>

\* XBeeSendData hands the call to the sendData entry of the vtable, which
\* is XBeeLRSendData; XBeeArduino::sendData turns the result into a bool:
\* return XBeeSendData(xbee_, &data) == API_SEND_SUCCESS;
sendData(result) == result = API_SEND_SUCCESS

-----------------------------------------------------------------------------
(* The serial line *)

\* what apiSendFrame wrote is fed back into the receive buffer (a loopback
\* plug on the UART)
Loopback ==
    /\ op = "idle"
    /\ wire # <<>>
    /\ rx = <<>>
    /\ rx' = wire
    /\ wire' = <<>>
    /\ UNCHANGED <<session, UART_READ_TIMEOUT_MS, now, op, pc, snd, rd, frame,
                   at, ret, resp, handled, cb, hist, lr>>

\* line noise changes one byte waiting in the receive buffer
Noise(i, delta) ==
    /\ op = "idle"
    /\ i \in 1..Len(rx)
    /\ ~hist.noise
    /\ rx' = [rx EXCEPT ![i] = U8(@ + delta)]
    /\ hist' = [hist EXCEPT !.noise = TRUE]
    /\ UNCHANGED <<session, UART_READ_TIMEOUT_MS, now, wire, op, pc, snd, rd,
                   frame, at, ret, resp, handled, cb, lr>>

\* the radio module puts bytes on the line
Arrive(bytes) ==
    /\ hist.arrivals < MaxArrivals
    /\ rx' = rx \o bytes
    /\ hist' = [hist EXCEPT !.arrivals = @ + 1, !.arrived = Append(@, bytes)]
    /\ UNCHANGED <<session, UART_READ_TIMEOUT_MS, now, wire, op, pc, snd, rd,
                   frame, at, ret, resp, handled, cb, lr>>

\* a frame as the radio module sends it: delimiter, length, the type and
\* payload bytes, checksum
ModuleFrame(data) ==
    <<START_DELIMITER, Len(data) \div 256, Len(data) % 256>> \o data
    \o <<255 - (SumRange(data, 1, Len(data)) % 256)>>

\* type and payload of an AT response: frame id, the two characters of the
\* command, the status, the value
AtResponse(id, cmd_str, status, value) ==
    <<XBEE_API_TYPE_AT_RESPONSE, id>> \o cmd_str \o <<status>> \o value

-----------------------------------------------------------------------------
(* Codec runs: apiSendFrame and apiReceiveApiFrame back to back *)

\* payload of n bytes b, b+k, b+2k, ... (mod 256)
Pattern(n, b, k) == [i \in 1..n |-> U8(b + (i - 1) * k)]

CodecTypes == {0, XBEE_API_TYPE_AT_RESPONSE, 255}
CodecLens == {0, 1, 2, 251, 252, 254, 255, 256}
CodecPayloads == {Pattern(n, b[1], b[2]) : n \in CodecLens,
                                           b \in {<<0, 0>>, <<255, 0>>, <<17, 3>>}}

InitCodec == InitWith({1}, {0}, ReadTimeoutCodec) /\ ~txStatusReceived

NextCodec ==
    \/ \E t \in CodecTypes, d \in CodecPayloads :
          hist.calls = 0 /\ SendFrameCall(t, d)
    \/ WriteStep
    \/ SendFrameReturn
    \/ Loopback
    \/ \E i \in {4, Len(rx) - 1, Len(rx)}, delta \in {1, 128} : Noise(i, delta)
    \/ hist.calls = 1 /\ rx # <<>> /\ ReceiveCall
    \/ ReadStep
    \/ ReceiveReturn

SpecCodec == InitCodec /\ [][NextCodec]_vars

-----------------------------------------------------------------------------
(* Claims about the codec *)

\* the wire format of the protocol for a frame of the given type and payload
WireFormat(type, payload) ==
    <<126, ((Len(payload) + 1) \div 256) % 256, (Len(payload) + 1) % 256, type>>
    \o payload
    \o <<(255 - ((type + SumRange(payload, 1, Len(payload))) % 256)) % 256>>

\* C1: round trip.  For every type and every payload of 0..254 bytes, the
\* bytes a successful apiSendFrame(type, payload) wrote, fed back unchanged
\* to apiReceiveApiFrame, are received successfully as a frame with
\* frame.data = type followed by payload and frame.length = payload
\* length + 1.
C1_RoundTrip ==
    (/\ op = "idle"
     /\ hist.calls = 2
     /\ ret # <<>>
     /\ ~hist.noise
     /\ snd.done
     /\ snd.status = API_SEND_SUCCESS
     /\ Len(snd.data) <= 254)
    => /\ ret = <<API_RECEIVE_SUCCESS>>
       /\ frame.type = snd.frameType
       /\ frame.length = Len(snd.data) + 1
       /\ frame.data = <<snd.frameType>> \o snd.data

\* C2: every frame a successful apiSendFrame(type, payload) wrote is exactly
\* 0x7E, lengthHi, lengthLo, type, payload, checksum with the big-endian
\* length = payload length + 1 and checksum = 0xFF - (type + sum of the
\* payload) mod 256.
C2_WireFormat ==
    (pc = "sent" /\ snd.done /\ snd.status = API_SEND_SUCCESS)
    => wire = WireFormat(snd.frameType, snd.data)

\* C3 holds of a frame whose four fields were all read
FullyRead ==
    /\ pc = "received"
    /\ rd.field = "checksum"
    /\ rd.status # API_RECEIVE_ERROR_TIMEOUT_CHECKSUM

\* C3: for a fully read frame apiReceiveApiFrame returns success if and only
\* if (type + sum of the payload bytes + checksum) mod 256 = 0xFF, and
\* API_RECEIVE_ERROR_INVALID_CHECKSUM otherwise.
C3_ChecksumRule ==
    FullyRead
    => IF (frame.type + SumRange(frame.data, 2, Len(frame.data))
           + frame.checksum) % 256 = 255
       THEN rd.status = API_RECEIVE_SUCCESS
       ELSE rd.status = API_RECEIVE_ERROR_INVALID_CHECKSUM

C3_Witness ==
    /\ FullyRead
    /\ frame.length > 1
    /\ rd.status = API_RECEIVE_ERROR_INVALID_CHECKSUM
    /\ frame.data = <<snd.frameType>> \o snd.data

\* C10: apiSendFrame accepts a payload of the maximum size, and a payload
\* beyond it is refused with API_SEND_ERROR_FRAME_TOO_LARGE before anything
\* is written.  (A payload of XBEE_MAX_FRAME_DATA_SIZE bytes is beyond the
\* maximum on every reading of it: with its type byte it exceeds 256.)
C10_TooLargeRejected ==
    (op = "sendFrame" /\ Len(snd.data) >= XBEE_MAX_FRAME_DATA_SIZE)
    => /\ pc = "sent"
       /\ snd.status = API_SEND_ERROR_FRAME_TOO_LARGE
       /\ wire = <<>>

\* apiSendFrame has left its write loop
SendFrameEnded == op = "sendFrame" /\ pc = "sent" /\ snd.done

\* C28: apiSendFrame returns API_SEND_SUCCESS if and only if every byte of
\* the frame was written to the transport (partial writes are continued
\* from where they stopped, no byte is written twice or skipped); it
\* returns API_SEND_ERROR_UART_FAILURE when a write reports failure or the
\* frame is not completely written within UART_WRITE_TIMEOUT_MS.
C28_SuccessIffWritten ==
    /\ (op = "sendFrame" /\ pc \in {"write", "sent"})
       => wire = SubSeq(snd.frame, 1, snd.total)
    /\ SendFrameEnded
       => /\ snd.status = API_SEND_SUCCESS <=> wire = snd.frame
          /\ snd.status \in {API_SEND_SUCCESS, API_SEND_ERROR_UART_FAILURE}

\* apiReceiveApiFrame has refused the length field
TooLargeRefused == rd.status = API_RECEIVE_ERROR_FRAME_TOO_LARGE

\* C23: apiReceiveApiFrame rejects a frame whose 2-byte big-endian length
\* field exceeds XBEE_MAX_FRAME_DATA_SIZE (256) with
\* API_RECEIVE_ERROR_FRAME_TOO_LARGE before any payload byte is read or
\* stored: the step that reads the second length byte takes that byte only
\* and ends the receive, a data field is only ever read for a length of at
\* most 256, and frame.data never holds more than 256 bytes.
C23_TooLargeRejected ==
    [][/\ Len(frame'.data) <= 256
       /\ (pc' = "read" /\ rd'.field = "data") => rd'.need <= 256
       /\ (pc = "read" /\ rd.field = "length" /\ rd.total = 1
           /\ rx # <<>> /\ rd.buf[1] * 256 + rx[1] > 256 /\ rd' # rd)
          => /\ pc' = "received"
             /\ rd'.status = API_RECEIVE_ERROR_FRAME_TOO_LARGE
             /\ rx' = Tail(rx)
             /\ frame'.data = <<>>
       /\ TooLargeRefused'
          => /\ rd'.field = "length"
             /\ rd'.buf[1] * 256 + rd'.buf[2] > 256
             /\ frame'.data = <<>>]_vars

\* a frame announcing 257 bytes has been refused, its bytes are still on the
\* line
C23_Witness ==
    /\ op = "idle"
    /\ ret = <<API_RECEIVE_ERROR_FRAME_TOO_LARGE>>
    /\ rd.buf = <<1, 1>>
    /\ frame.data = <<>>
    /\ Len(rx) >= 257

-----------------------------------------------------------------------------
(* Frame-id runs: XBeeInit and long series of sends *)

\* the counter starts with what malloc left in it
InitIds == InitWith({0, 1, 255}, {0}, ReadTimeoutWait) /\ ~txStatusReceived

NextIds ==
    \/ XBeeInit
    \/ hist.nSend < MaxPlainSends /\ SendFrameCall(0, <<>>)
    \/ hist.nSend < MaxSends /\ SendAtCommandCall("AT_JS", <<>>)
    \/ hist.nSend < MaxSends /\ SendJoinReqApiFrame
    \/ WriteStep
    \/ SendFrameReturn
    \/ SendAtCommandReturn
    \/ SendJoinReqReturn

SpecIds == InitIds /\ [][NextIds]_vars

\* C4: from a session initialised by XBeeInit (frameIdCntr = 1), after n
\* calls of apiSendFrame frameIdCntr = ((1 + n - 1) mod 255) + 1; it wraps
\* from 255 to 1 and is never 0.
C4_FrameIdCounter ==
    hist.inited
    => /\ frameIdCntr = ((1 + hist.nSend - 1) % 255) + 1
       /\ frameIdCntr # 0

\* 255 sends after XBeeInit the counter has wrapped from 255 to 1
C4_Witness ==
    /\ hist.inited
    /\ hist.nSend = 255
    /\ frameIdCntr = 1

\* C38: after the documented start-up sequence (XBeeLRCreate inside the
\* XBeeArduino constructor, then XBeeArduino::begin, neither of which calls
\* XBeeInit), the session fields have defined initial values before the
\* first frame is sent: frameIdCntr = 1, so the first outbound frame carries
\* frame id 1 and not 0 or an arbitrary value.
\* (Stated at the first send: the frame carries id 1 and leaves the counter
\* at 2.)
C38_DefinedStart ==
    ~hist.inited
    => /\ hist.sentIds # <<>> => hist.sentIds[1].id = 1
       /\ hist.nSend = 1 => frameIdCntr = 2

\* C5: the frame id carried by every AT-command, join-request and
\* TX-request frame is non-zero, and two such frames sent within 255
\* consecutive sends carry different frame ids.  (Stated of the newest
\* frame against all earlier ones; every earlier frame was the newest in an
\* earlier state.)
C5_FrameIdsUnique ==
    hist.sentIds # <<>>
    => LET k == Len(hist.sentIds)
           last == hist.sentIds[k]
       IN  /\ last.id # 0
           /\ \A i \in 1..(k - 1) :
                 last.n - hist.sentIds[i].n < 255
                 => hist.sentIds[i].id # last.id

-----------------------------------------------------------------------------
(* Command-channel runs: apiSendAtCommandAndGetResponse against a module
   that answers, answers something else, reports events, or stays silent *)

AtTimeouts == {0, 4, 16}

ModuleFrames ==
    {ModuleFrame(AtResponse(1, atCommandToString("AT_JS"), 0, <<1>>)),
     ModuleFrame(AtResponse(1, atCommandToString("AT_WR"), 0, <<>>)),
     ModuleFrame(AtResponse(1, atCommandToString("AT_JS"), 2, <<9>>)),
     ModuleFrame(<<XBEE_API_TYPE_TX_STATUS, 7, 3>>),
     ModuleFrame(<<XBEE_API_TYPE_MODEM_STATUS, 0>>),
     ModuleFrame(<<XBEE_API_TYPE_LR_RX_PACKET, 2, 170, 187>>)}

Init == InitWith({1}, {0}, ReadTimeoutWait) /\ ~txStatusReceived

Next ==
    \/ \E c \in {"AT_JS", "AT_WR"}, T \in AtTimeouts :
          hist.calls < MaxCalls /\ AtCmdCall(c, <<>>, TRUE, T)
    \/ WriteStep
    \/ AtCmdSent
    \/ ReadStep
    \/ AtCmdLoop
    \/ \E f \in ModuleFrames : Arrive(f)

Spec == Init /\ [][Next]_vars

-----------------------------------------------------------------------------
(* Claims about the command channel *)

\* apiSendAtCommandAndGetResponse has just returned
AtReturned == op = "idle" /\ ret # <<>> /\ at.polls > 0

\* the two command characters of a received AT response match the command
\* that was sent
MnemonicMatches ==
    <<DataAt(frame, 2), DataAt(frame, 3)>> = atCommandToString(at.command)

\* C6: apiSendAtCommandAndGetResponse ends its wait successfully only on a
\* frame of the AT-response type whose two-character mnemonic matches the
\* command that was sent.
C6_SuccessOnlyOnMatch ==
    (AtReturned /\ ret = <<API_SEND_SUCCESS>>)
    => /\ frame.type = XBEE_API_TYPE_AT_RESPONSE
       /\ MnemonicMatches

\* C34: if the fire phase of apiSendAtCommandAndGetResponse fails (parameter
\* too large, invalid command, or transport write failure), the call returns
\* a non-zero error code and never returns API_SEND_SUCCESS on the strength
\* of an AT response that happens to arrive afterwards.
C34_FireFailure ==
    (AtReturned /\ at.sendStatus # API_SEND_SUCCESS)
    => /\ ret # <<API_SEND_SUCCESS>>
       /\ at.responses = 0

\* type and payload bytes of a frame the module sent
DataOf(bytes) == SubSeq(bytes, 4, Len(bytes) - 1)

RECURSIVE TotalLen(_, _)
\* number of bytes of the frames from the i-th on
TotalLen(frames, i) ==
    IF i > Len(frames) THEN 0 ELSE Len(frames[i]) + TotalLen(frames, i + 1)

RECURSIVE ConsumedOthers(_, _, _)
\* type and payload of the frames, from the i-th on, that are not AT
\* responses and that have left the receive buffer completely
ConsumedOthers(frames, i, left) ==
    IF i > Len(frames) THEN <<>>
    ELSE IF TotalLen(frames, i + 1) >= left
              /\ DataOf(frames[i])[1] # XBEE_API_TYPE_AT_RESPONSE
         THEN <<DataOf(frames[i])>> \o ConsumedOthers(frames, i + 1, left)
         ELSE ConsumedOthers(frames, i + 1, left)

\* the frames handed to apiHandleFrame during the call, as type and payload
HandledData == [j \in 1..Len(handled) |-> handled[j].data]

\* C7: while apiSendAtCommandAndGetResponse waits, every well-formed frame
\* of another type that the module sent and the wait took from the line has
\* been passed to apiHandleFrame exactly once, and the wait resolves only on
\* the matching AT response or on the timeout.
C7_Interleaving ==
    (AtReturned /\ hist.calls = 1)
    => /\ HandledData = ConsumedOthers(hist.arrived, 1, Len(rx))
       /\ \/ ret = <<API_SEND_AT_CMD_RESONSE_TIMEOUT>>
          \/ /\ frame.type = XBEE_API_TYPE_AT_RESPONSE
             /\ MnemonicMatches

\* the loop has received an AT response that carries a status byte
AtResponseReceived ==
    /\ op = "atCmd"
    /\ pc = "received"
    /\ rd.status = API_RECEIVE_SUCCESS
    /\ frame.type = XBEE_API_TYPE_AT_RESPONSE
    /\ frame.length >= 5

\* C8: the step that follows the receipt of an AT response returns at once.
\* With a non-zero status byte it returns API_SEND_AT_CMD_ERROR, copies
\* nothing into the response buffer, reads nothing more from the line and
\* sends nothing again; with status 0 it returns API_SEND_SUCCESS with the
\* data that follows the status byte.
C8_StatusByte ==
    [][(AtResponseReceived /\ pc' # pc)
       => IF frame.data[5] # 0
          THEN /\ op' = "idle"
               /\ ret' = <<API_SEND_AT_CMD_ERROR>>
               /\ ~resp'.copied
               /\ resp'.buf = <<>>
               /\ rx' = rx
               /\ rd' = rd
               /\ wire' = wire
               /\ hist'.nSend = hist.nSend
          ELSE /\ op' = "idle"
               /\ ret' = <<API_SEND_SUCCESS>>
               /\ resp'.len = frame.length - 5
               /\ resp'.buf = SubSeq(frame.data, 6, frame.length)]_vars

\* an error response ended the wait while another frame was still unread
C8_Witness ==
    /\ AtReturned
    /\ ret = <<API_SEND_AT_CMD_ERROR>>
    /\ frame.type = XBEE_API_TYPE_AT_RESPONSE
    /\ frame.data[5] # 0
    /\ frame.length > 5
    /\ ~resp.copied
    /\ rx # <<>>

\* the line stayed silent during the call
Silent == ~at.gotBytes /\ rx = <<>>

-----------------------------------------------------------------------------
(* Send-data runs: XBeeLRSendData against a module that reports the
   transmission, reports something else, or stays silent *)

\* payloads that fit frame_data[] and one that does not
SendPayloads == {<<170, 187>>, Pattern(126, 17, 3)}

SendModuleFrames ==
    {ModuleFrame(<<XBEE_API_TYPE_TX_STATUS, 1, 0>>),
     ModuleFrame(<<XBEE_API_TYPE_TX_STATUS, 1, 3>>),
     ModuleFrame(<<XBEE_API_TYPE_MODEM_STATUS, 0>>)}

\* the flag and the status hold what an earlier send left in them
InitSend == InitWith({1}, {0}, ReadTimeoutWait)

NextSend ==
    \/ \E payload \in SendPayloads :
          hist.calls < MaxSendCalls /\ SendDataCall(2, 3, payload)
    \/ WriteStep
    \/ SendDataSent
    \/ ReadStep
    \/ SendDataLoop
    \/ \E f \in SendModuleFrames : now <= SendArriveBy /\ Arrive(f)

SpecSend == InitSend /\ [][NextSend]_vars

\* the TX request of the packet as the protocol prescribes it
TxRequestOf(packet) ==
    WireFormat(XBEE_API_TYPE_LR_TX_REQUEST,
               <<packet.frameId, packet.port, packet.ack % 2>>
               \o packet.payload)

\* XBeeLRSendData is in its wait loop
SendDataInWait == op = "sendData" /\ pc \in {"read", "received"}

\* XBeeLRSendData has returned after apiSendFrame reported success
SendDataWaited ==
    op = "idle" /\ ret # <<>> /\ snd.done /\ snd.status = API_SEND_SUCCESS

\* C13: XBeeLRSendData transmits a TX-request frame carrying {frameId, port,
\* ack & 1, payload}, then clears txStatusReceived, then receives and
\* dispatches frames until txStatusReceived becomes true or 10000 ms have
\* elapsed: while it waits the frame is on the line, the flag is clear and
\* a receive only starts before the deadline; when the flag was set by a
\* dispatched transmit status it returns deliveryStatus, and when the
\* deadline passed it returns 0xFF.
C13_SendDataWait ==
    /\ SendDataInWait
       => /\ wire = TxRequestOf(lr)
          /\ ~txStatusReceived
          /\ (pc = "read" /\ rd.field = "start")
             => rd.startTime - lr.startTime < 10000
    /\ SendDataWaited
       => /\ wire = TxRequestOf(lr)
          /\ IF txStatusReceived
             THEN /\ ret = <<deliveryStatus>>
                  /\ handled # <<>>
                  /\ handled[Len(handled)].type = XBEE_API_TYPE_TX_STATUS
             ELSE /\ ret = <<255>>
                  /\ now - lr.startTime >= 10000

\* XBeeSendData has returned
SendDataReturned == op = "idle" /\ ret # <<>> /\ hist.calls = 1

\* the packet was handed to the transport and the module reported it
\* delivered
Delivered ==
    /\ snd.done
    /\ snd.status = API_SEND_SUCCESS
    /\ snd.total = Len(snd.frame)
    /\ handled # <<>>
    /\ handled[Len(handled)].type = XBEE_API_TYPE_TX_STATUS
    /\ DataAt(handled[Len(handled)], 2) = 0
    /\ deliveryStatus = 0

\* C14: XBeeSendData returns 0 only if the data was sent successfully.
\* Whenever the TX-request frame could not be written to the transport, or
\* no transmit status arrived, or the delivery status was non-zero, the
\* result is non-zero, so XBeeArduino::sendData returns true only for a
\* delivered packet.
C14_ZeroOnlyOnDelivery ==
    (SendDataReturned /\ sendData(ret[1])) => Delivered

-----------------------------------------------------------------------------
(* Connect runs: XBeeLRConnect against a module that reports joined, not
   joined, an error, something longer, or nothing *)

ConnectModuleFrames ==
    {ModuleFrame(AtResponse(2, atCommandToString("AT_JS"), 0, <<1>>)),
     ModuleFrame(AtResponse(2, atCommandToString("AT_JS"), 0, <<0>>)),
     ModuleFrame(AtResponse(2, atCommandToString("AT_JS"), 2, <<>>)),
     ModuleFrame(AtResponse(2, atCommandToString("AT_WR"), 0, <<0, 1>>))}

\* the UART takes a frame at the first write, or fails at the first write
PromptWrite == WriteStep /\ snd'.done

\* the module answers while a query polls, soon after the query was sent
ReplyWindow ==
    /\ op = "connect"
    /\ lr.queries > 0
    /\ pc = "read"
    /\ now - at.startTime <= ReplyWithin

InitConnect == InitWith({1}, {0}, ReadTimeoutWait) /\ ~txStatusReceived

NextConnect ==
    \/ hist.calls < MaxConnectCalls /\ ConnectCall
    \/ PromptWrite
    \/ ConnectJoinSent
    \/ ConnectQuerySent
    \/ ReadStep
    \/ ConnectLoop
    \/ ConnectQueried
    \/ \E f \in ConnectModuleFrames : ReplyWindow /\ Arrive(f)

SpecConnect == InitConnect /\ [][NextConnect]_vars

\* XBeeLRConnect has returned
ConnectReturned == op = "idle" /\ ret # <<>>

\* the join status query as the protocol prescribes it
JoinStatusQuery(id) ==
    WireFormat(XBEE_API_TYPE_AT_COMMAND, <<id>> \o <<74, 83>>)

\* what C15 says of every state of a connect
ConnectShape ==
    /\ (op = "connect" /\ lr.queries = 0)
       => /\ hist.nSend = lr.sentBefore + 1
          /\ snd.frame = WireFormat(XBEE_API_TYPE_LR_JOIN_REQUEST,
                                    <<hist.sentIds[hist.nSend].id>>)
    /\ (op = "connect" /\ lr.queries > 0)
       => /\ hist.nSend = lr.sentBefore + 1 + lr.queries
          /\ snd.frame = JoinStatusQuery(hist.sentIds[hist.nSend].id)
          /\ lr.thisQuery - lr.startTime < 6000
    /\ (op = "connect" /\ lr.queries > 1)
       => lr.thisQuery = lr.lastQuery + 500
    /\ ConnectReturned
       => /\ lr.queries >= 1
          /\ hist.nSend = lr.sentBefore + 1 + lr.queries
          /\ IF ret = <<1>>
             THEN lr.response # 0
             ELSE /\ ret = <<0>>
                  /\ lr.response = 0
                  /\ now = lr.lastQuery + 500
                  /\ now - lr.startTime >= 6000

\* a query has returned with a one-byte join status that says joined
JoinedReported ==
    /\ op = "connect"
    /\ pc = "queried"
    /\ resp.copied
    /\ resp.len = 1
    /\ resp.buf # <<0>>

JoinRequestBegins ==
    /\ hist'.nSend = hist.nSend + 1
    /\ snd'.frameType = XBEE_API_TYPE_LR_JOIN_REQUEST

\* C29: XBeeLRConnect emits exactly one join-request frame per invocation,
\* whatever the number of join-status polls and whatever their outcome; it
\* never re-issues the join request on its own.
C29_OneJoinRequest ==
    [][/\ (op = "idle" /\ op' = "connect")
          => /\ JoinRequestBegins
             /\ snd'.frame = WireFormat(XBEE_API_TYPE_LR_JOIN_REQUEST,
                                        <<frameIdCntr>>)
       /\ op = "connect"
          => /\ ~JoinRequestBegins
             /\ hist'.nSend > hist.nSend
                => snd'.frameType = XBEE_API_TYPE_AT_COMMAND
             /\ (lr.queries = 0 /\ pc = "write")
                => /\ snd.frameType = XBEE_API_TYPE_LR_JOIN_REQUEST
                   /\ wire' = SubSeq(snd.frame, 1, Len(wire'))]_vars

\* every query of the call reported not joined until the deadline passed
C29_Witness ==
    /\ ConnectReturned
    /\ ret = <<0>>
    /\ lr.queries >= 2
    /\ hist.nSend = lr.sentBefore + 1 + lr.queries
    /\ snd.frameType = XBEE_API_TYPE_AT_COMMAND

\* C36: the response copy in apiSendAtCommandAndGetResponse never reads or
\* writes out of bounds: the reported responseLength equals the number of
\* data bytes that follow the status byte in the received AT-response frame,
\* it does not wrap around for a frame shorter than 5 bytes, and the number
\* of bytes copied never exceeds what the caller's buffer holds (1 byte in
\* XBeeLRConnected).
C36_CopyInBounds ==
    /\ (op = "connect" /\ lr.queries > 0) => pc # "crashed"
    /\ (op = "connect" /\ pc = "queried" /\ at.responses > 0)
       => /\ resp.len = frame.length - 5
          /\ resp.copied
             => /\ Len(resp.buf) <= CONNECTED_BUF_SIZE
                /\ 5 + Len(resp.buf) <= frame.length

-----------------------------------------------------------------------------
(* Pump runs: the host calls XBeeLRProcess while the module reports
   transmissions and received packets, and while the line delivers damaged
   frames, stray bytes, or nothing *)

\* a frame whose checksum byte was changed on the line
BadChecksum(bytes) == [bytes EXCEPT ![Len(bytes)] = U8(@ + 1)]

\* an explicitly addressed RX packet: port 2, rssi -56, snr -6, data rate 5
\* in slot 2, counter 258, one more header byte, payload AA BB
ExplicitRxData ==
    <<XBEE_API_TYPE_LR_EXPLICIT_RX_PACKET, 2, 200, 250, 37, 0, 0, 1, 2, 0,
      170, 187>>

ProcessFrames ==
    {ModuleFrame(<<XBEE_API_TYPE_TX_STATUS, 7, 3>>),
     ModuleFrame(<<XBEE_API_TYPE_LR_EXPLICIT_TX_STATUS, 7, 3, 5, 1, 14,
                   0, 0, 0, 9>>),
     ModuleFrame(<<XBEE_API_TYPE_LR_RX_PACKET, 2, 170, 187>>),
     ModuleFrame(ExplicitRxData),
     ModuleFrame(<<XBEE_API_TYPE_LR_RX_PACKET>>),
     BadChecksum(ModuleFrame(<<XBEE_API_TYPE_TX_STATUS, 7, 3>>)),
     <<85>>,
     <<START_DELIMITER, 1, 1>>,
     <<START_DELIMITER, 0, 3, XBEE_API_TYPE_TX_STATUS>>}

\* the flag holds what an earlier send left in it
InitProcess == InitWith({1}, {0}, ReadTimeoutPump)

NextProcess ==
    \/ hist.calls < MaxProcessCalls /\ ProcessCall
    \/ ReadStep
    \/ ProcessReturn
    \/ \E f \in ProcessFrames : Arrive(f)

SpecProcess == InitProcess /\ [][NextProcess]_vars

\* the step passes the received frame to apiHandleFrame
Dispatching == handled' = Append(handled, frame)

\* C16: dispatching a transmit-status frame (TX status 0x89, or the
\* LongRange explicit transmit-status type) through apiHandleFrame sets
\* deliveryStatus to the frame's status byte, sets txStatusReceived, and
\* invokes the on-send callback exactly once with a packet that carries the
\* frame's frame id and status.
C16_TransmitStatus ==
    [][(/\ Dispatching
        /\ frame.type \in {XBEE_API_TYPE_TX_STATUS,
                           XBEE_API_TYPE_LR_EXPLICIT_TX_STATUS}
        /\ frame.length >= 3)
       => /\ deliveryStatus' = frame.data[3]
          /\ txStatusReceived'
          /\ Len(cb') = Len(cb) + 1
          /\ cb'[Len(cb')].event = "OnSend"
          /\ cb'[Len(cb')].frameId = frame.data[2]
          /\ cb'[Len(cb')].status = frame.data[3]]_vars

\* the packet the last callback of the step was invoked with
LastPacket == cb'[Len(cb')]

\* two's complement value of a byte
Signed(b) == IF b > 127 THEN b - 256 ELSE b

\* C17: dispatching a LongRange RX-packet frame invokes the on-receive
\* callback exactly once with a packet built from the frame.  For implicit
\* addressing (0xD0) port is the first byte after the type and the payload
\* is all remaining bytes; for explicit addressing (0xD1) port, rssi, snr,
\* data rate and slot and the 32-bit big-endian counter come from the
\* header and the payload is the bytes after the header.  (Said of frames
\* that hold their header.)
C17_RxPacket ==
    [][/\ (/\ Dispatching
           /\ frame.type = XBEE_API_TYPE_LR_RX_PACKET
           /\ frame.length >= 2)
          => /\ Len(cb') = Len(cb) + 1
             /\ LastPacket.event = "OnReceive"
             /\ LastPacket.port = frame.data[2]
             /\ LastPacket.payloadSize = frame.length - 2
             /\ LastPacket.payload = SubSeq(frame.data, 3, frame.length)
             /\ UNCHANGED session
       /\ (/\ Dispatching
           /\ frame.type = XBEE_API_TYPE_LR_EXPLICIT_RX_PACKET
           /\ frame.length >= 10)
          => /\ Len(cb') = Len(cb) + 1
             /\ LastPacket.event = "OnReceive"
             /\ LastPacket.port = frame.data[2]
             /\ LastPacket.rssi = Signed(frame.data[3])
             /\ LastPacket.snr = Signed(frame.data[4])
             /\ LastPacket.dr = frame.data[5] % 16
             /\ LastPacket.slot = frame.data[5] \div 16
             /\ LastPacket.counter = ((frame.data[6] * 256 + frame.data[7])
                                      * 256 + frame.data[8]) * 256
                                     + frame.data[9]
             /\ LastPacket.payloadSize = frame.length - 10
             /\ LastPacket.payload = SubSeq(frame.data, 11, frame.length)
             /\ UNCHANGED session]_vars

\* both kinds of RX packet were delivered in one run, the implicit one of
\* the example (port 2, payload AA BB) last
C17_Witness ==
    /\ op = "idle"
    /\ hist.calls = 2
    /\ hist.arrived[1] = ModuleFrame(ExplicitRxData)
    /\ Len(cb) = 1
    /\ cb[1].event = "OnReceive"
    /\ cb[1].port = 2
    /\ cb[1].payload = <<170, 187>>
    /\ cb[1].payloadSize = 2
    /\ handled[1].data = <<XBEE_API_TYPE_LR_RX_PACKET, 2, 170, 187>>
    /\ rx = <<>>

-----------------------------------------------------------------------------
(* Command-frame runs: apiSendAtCommand with parameters of every size class *)

\* paramLength is a uint8_t: lengths around the limit of the check, around
\* the capacity of frame_data[], and the largest one
CmdParamLens == {0, 1, 125, 126, 128, 129, 255}
CmdParams == {Pattern(n, 17, 3) : n \in CmdParamLens}

InitCmd == InitWith({1, 255}, {0}, ReadTimeoutWait) /\ ~txStatusReceived

NextCmd ==
    \/ \E c \in {"AT_WR", "AT_JS", "AT_AC"}, p \in CmdParams :
          hist.calls < MaxCmdCalls /\ SendAtCommandCall(c, p)
    \/ WriteStep
    \/ SendAtCommandReturn

SpecCmd == InitCmd /\ [][NextCmd]_vars

\* C11: a parameter of more than 128 bytes makes apiSendAtCommand return
\* API_SEND_ERROR_FRAME_TOO_LARGE before any buffer write: the call goes
\* straight to its return, no byte is written to the transport, nothing is
\* truncated and sent, and frameIdCntr keeps its value.
C11_OversizedRefused ==
    [][/\ (op = "idle" /\ op' = "sendAtCommand" /\ at'.paramLength > 128)
          => /\ pc' = "sent"
             /\ snd'.status = API_SEND_ERROR_FRAME_TOO_LARGE
             /\ snd'.frame = <<>>
             /\ wire' = <<>>
             /\ frameIdCntr' = frameIdCntr
             /\ hist'.nSend = hist.nSend
       /\ (op = "sendAtCommand" /\ at.paramLength > 128)
          => /\ op' = "idle"
             /\ ret' = <<API_SEND_ERROR_FRAME_TOO_LARGE>>
             /\ wire' = <<>>
             /\ frameIdCntr' = frameIdCntr]_vars

\* a call with a 129-byte parameter is at its return
C11_Witness ==
    /\ op = "sendAtCommand"
    /\ pc = "sent"
    /\ at.paramLength = 129
    /\ snd.status = API_SEND_ERROR_FRAME_TOO_LARGE
    /\ wire = <<>>
    /\ hist.calls = 1
    /\ hist.nSend = 0

\* apiSendAtCommand was called with a command that atCommandToString does
\* not know and a parameter that passes the length check
NoMnemonicCall ==
    /\ op = "sendAtCommand"
    /\ atCommandToString(at.command) = <<>>
    /\ at.paramLength <= AT_PARAM_MAX

ParamAccepted ==
    /\ op = "sendAtCommand"
    /\ ~(pc = "sent" /\ snd.frame = <<>>
         /\ snd.status = API_SEND_ERROR_FRAME_TOO_LARGE)

\* C12: every write path validates length <= capacity before copying.  For
\* every parameter length apiSendAtCommand accepts, the 3 header bytes and
\* the parameter fit the 128 bytes of frame_data, and the frame apiSendFrame
\* then builds (delimiter, length, type, payload, checksum) fits the 256
\* bytes of its frame buffer: no reachable state writes past a buffer's end.
C12_WritesFit ==
    ParamAccepted
    => /\ 3 + at.paramLength <= AT_FRAME_DATA_SIZE
       /\ FrameLength(3 + at.paramLength) <= FRAME_BUF_SIZE
       /\ pc # "crashed"

\* frame.data[] index at which the payload of an RX packet begins
RxHeaderSize(f) ==
    IF f.type = XBEE_API_TYPE_LR_EXPLICIT_RX_PACKET THEN 10 ELSE 2

\* C37: the payloadSize handed to the on-receive callback never exceeds the
\* number of payload bytes actually present in the received frame: for an
\* RX-packet frame shorter than its header (length < 2 for implicit,
\* length < 10 for explicit addressing) the size does not wrap around and
\* the payload pointer plus size stays inside the frame's received data.
C37_PayloadSizeInFrame ==
    [][(/\ Dispatching
        /\ frame.type \in {XBEE_API_TYPE_LR_RX_PACKET,
                           XBEE_API_TYPE_LR_EXPLICIT_RX_PACKET})
       => /\ Len(cb') = Len(cb) + 1
          /\ LastPacket.payloadSize = Len(LastPacket.payload)
          /\ frame.length < RxHeaderSize(frame)
             => LastPacket.payloadSize = 0
          /\ frame.length >= RxHeaderSize(frame)
             => RxHeaderSize(frame) + LastPacket.payloadSize
                = frame.length]_vars

\* XBeeLRProcess whose apiReceiveApiFrame has just failed
ProcessFailed ==
    /\ op = "process"
    /\ pc = "received"
    /\ rd.status # API_RECEIVE_SUCCESS

\* C19: framing errors during idle pumping are silently discarded: when
\* apiReceiveApiFrame fails in XBeeLRProcess (timeout, invalid start
\* delimiter, frame too large, invalid checksum) nothing is dispatched, no
\* callback is invoked, and frameIdCntr, txStatusReceived and deliveryStatus
\* are unchanged; the call returns and the next call receives again.
C19_ErrorsDiscarded ==
    [][ProcessFailed
       => /\ op' = "idle" \/ (op' = op /\ pc' = pc)
          /\ handled' = <<>>
          /\ cb' = <<>>
          /\ frameIdCntr' = frameIdCntr
          /\ txStatusReceived' = txStatusReceived
          /\ deliveryStatus' = deliveryStatus]_vars

\* a call has returned after a frame with a wrong checksum
C19_Witness ==
    /\ op = "idle"
    /\ hist.calls >= 1
    /\ rd.status = API_RECEIVE_ERROR_INVALID_CHECKSUM
    /\ handled = <<>>
    /\ cb = <<>>

FieldTimedOut ==
    /\ pc = "received"
    /\ rd.status \in {API_RECEIVE_ERROR_TIMEOUT_START_DELIMITER,
                      API_RECEIVE_ERROR_TIMEOUT_LENGTH,
                      API_RECEIVE_ERROR_TIMEOUT_DATA,
                      API_RECEIVE_ERROR_TIMEOUT_CHECKSUM}

\* C25: readBytesWithTimeout(n, timeoutMs) returns success with the n bytes
\* whenever the transport delivers n bytes before timeoutMs have elapsed
\* since the call began, and returns a timeout error only when fewer than n
\* bytes were collected by then: at a timeout return the bytes collected,
\* and even those together with the bytes the transport holds ready, are
\* fewer than n.
C25_ReadExact ==
    [][(~FieldTimedOut /\ FieldTimedOut')
       => /\ rd'.total < rd'.need
          /\ rd.total + Len(rx) < rd.need]_vars

\* apiSendAtCommand has written the whole frame
CommandSent ==
    /\ op = "sendAtCommand"
    /\ pc = "sent"
    /\ snd.done
    /\ snd.status = API_SEND_SUCCESS

\* the two characters of the commands of these runs
Mnemonic(command) == IF command = "AT_WR" THEN <<87, 82>> ELSE <<74, 83>>

\* C18: with frameIdCntr = 1, apiSendAtCommand(AT_WR) with no parameter
\* writes exactly the bytes 7E 00 04 08 01 57 52 4D; in general an
\* AT-command frame has type 0x08 and payload = frame id, the two mnemonic
\* characters of the command, then the parameter bytes.
C18_AtCommandFrame ==
    /\ (CommandSent /\ at.frameId = 1 /\ at.command = "AT_WR"
        /\ at.paramLength = 0)
       => wire = <<126, 0, 4, 8, 1, 87, 82, 77>>
    /\ CommandSent
       => wire = WireFormat(8, <<at.frameId>> \o Mnemonic(at.command)
                               \o Pattern(at.paramLength, 17, 3))

-----------------------------------------------------------------------------
(* Noisy-line runs: apiSendAtCommandAndGetResponse while the line delivers
   something that is not a frame, and the answer after it *)

NoisyTimeouts == {16, 24}

\* the answer of the module to AT_JS
JoinedResponse ==
    ModuleFrame(AtResponse(1, atCommandToString("AT_JS"), 0, <<1>>))

\* what makes one receive attempt fail: a stray byte, a frame with a wrong
\* checksum, a frame that stops after its type byte, a length that is too
\* large
LineNoise ==
    {<<85>>,
     BadChecksum(ModuleFrame(<<XBEE_API_TYPE_MODEM_STATUS, 0>>)),
     <<126, 0, 3, 137>>,
     <<126, 1, 1>>}

\* the wait is in a receive attempt that has taken nothing from the line,
\* the deadline has not passed
AtPolling ==
    /\ op = "atCmd"
    /\ pc = "read"
    /\ rd.field = "start"
    /\ rd.total = 0
    /\ now - at.startTime < at.timeoutMs

\* the line delivers the noise during the wait
NoiseArrives(bytes) ==
    /\ op = "atCmd"
    /\ hist.arrived = <<>>
    /\ Arrive(bytes)

\* the module answers after the noise has made a receive attempt fail and
\* before the deadline
AnswerAfterError ==
    /\ AtPolling
    /\ Len(hist.arrived) = 1
    /\ rx = <<>>
    /\ Arrive(JoinedResponse)

InitNoisy == InitWith({1}, {0}, ReadTimeoutWait) /\ ~txStatusReceived

NextNoisy ==
    \/ \E T \in NoisyTimeouts :
          hist.calls < MaxNoisyCalls /\ AtCmdCall("AT_JS", <<>>, TRUE, T)
    \/ WriteStep
    \/ AtCmdSent
    \/ ReadStep
    \/ AtCmdLoop
    \/ \E n \in LineNoise : NoiseArrives(n)
    \/ AnswerAfterError

SpecNoisy == InitNoisy /\ [][NextNoisy]_vars

\* a receive attempt of the wait has just failed
AttemptFailed ==
    /\ op = "atCmd"
    /\ pc = "received"
    /\ rd.status # API_RECEIVE_SUCCESS

\* the call has returned and the answer had arrived after a failed attempt,
\* before the deadline
AnsweredInTime == AtReturned /\ Len(hist.arrived) = 2

\* C20: a framing error on a single receive attempt inside
\* apiSendAtCommandAndGetResponse does not end the wait: the loop keeps
\* polling, a valid AT response arriving afterwards before the deadline is
\* still returned, and otherwise the call fails with the response timeout.
C20_ErrorKeepsPolling ==
    [][/\ (AttemptFailed /\ pc' # pc)
          => IF now - at.startTime < at.timeoutMs
             THEN op' = "atCmd" /\ pc' = "read" /\ ret' = <<>>
             ELSE op' = "idle" /\ ret' = <<API_SEND_AT_CMD_RESONSE_TIMEOUT>>
       /\ AnsweredInTime'
          => /\ ret' = <<API_SEND_SUCCESS>>
             /\ resp'.buf = <<1>>
       /\ (AtReturned' /\ Len(hist'.arrived) < 2)
          => ret' = <<API_SEND_AT_CMD_RESONSE_TIMEOUT>>]_vars

-----------------------------------------------------------------------------
(* Late-answer runs: two commands in a row, the module answers in time, or
   after the wait for the first command has timed out *)

LateTimeouts == {4}

\* AT responses that carry the frame id of the first command, of the second
\* command, and of neither
LateFrames ==
    {ModuleFrame(AtResponse(1, atCommandToString("AT_JS"), 0, <<1>>)),
     ModuleFrame(AtResponse(2, atCommandToString("AT_WR"), 0, <<>>)),
     ModuleFrame(AtResponse(7, atCommandToString("AT_JS"), 2, <<>>))}

\* the module answers a command whose wait has already ended with the
\* response timeout
LateAnswer(bytes) ==
    /\ op = "idle"
    /\ ret = <<API_SEND_AT_CMD_RESONSE_TIMEOUT>>
    /\ hist.arrivals < MaxArrivals
    /\ rx' = rx \o bytes
    /\ hist' = [hist EXCEPT !.arrivals = @ + 1, !.arrived = Append(@, bytes),
                            !.late = TRUE]
    /\ UNCHANGED <<session, UART_READ_TIMEOUT_MS, now, wire, op, pc, snd, rd,
                   frame, at, ret, resp, handled, cb, lr>>

InitLate == InitWith({1}, {0}, ReadTimeoutWait) /\ ~txStatusReceived

NextLate ==
    \/ \E c \in {"AT_JS", "AT_WR"}, T \in LateTimeouts :
          hist.calls < MaxLateCalls /\ AtCmdCall(c, <<>>, TRUE, T)
    \/ WriteStep
    \/ AtCmdSent
    \/ ReadStep
    \/ AtCmdLoop
    \/ \E f \in LateFrames : op = "atCmd" /\ Arrive(f)
    \/ \E f \in LateFrames : LateAnswer(f)

SpecLate == InitLate /\ [][NextLate]_vars

\* C21: apiSendAtCommandAndGetResponse does not compare the frame id in an
\* AT response with the frame id of the request: whatever frame id an AT
\* response carries, also the late response to an earlier command that
\* timed out, the step after its receipt returns it as the reply to the
\* current command (success for status 0, the command error otherwise).
C21_AnyFrameIdAccepted ==
    [][(AtResponseReceived /\ pc' # pc)
       => /\ op' = "idle"
          /\ ret' = <<IF frame.data[5] = 0 THEN API_SEND_SUCCESS
                      ELSE API_SEND_AT_CMD_ERROR>>
          /\ resp'.len = frame.length - 5]_vars

\* the second command has been answered by the late response to the first
C21_Witness ==
    /\ AtReturned
    /\ hist.calls = 2
    /\ hist.late
    /\ hist.arrivals = 1
    /\ ret = <<API_SEND_SUCCESS>>
    /\ frame.type = XBEE_API_TYPE_AT_RESPONSE
    /\ at.frameId = 2
    /\ DataAt(frame, 1) = 1
    /\ resp.buf = <<1>>

-----------------------------------------------------------------------------
(* Reset runs: the host disconnects and resets between commands while the
   module keeps sending *)

ResetFrames ==
    {ModuleFrame(<<XBEE_API_TYPE_MODEM_STATUS, 0>>),
     ModuleFrame(<<XBEE_API_TYPE_TX_STATUS, 7, 3>>)}

InitReset == InitWith({1, 255}, {0, 3}, ReadTimeoutWait)

NextReset ==
    \/ \E name \in NoOps : hist.calls < MaxResetCalls /\ NoOpCall(name)
    \/ NoOpReturn
    \/ hist.calls < MaxResetCalls /\ SendAtCommandCall("AT_JS", <<>>)
    \/ WriteStep
    \/ SendAtCommandReturn
    \/ \E f \in ResetFrames : Arrive(f)

SpecReset == InitReset /\ [][NextReset]_vars

-----------------------------------------------------------------------------
(* Partial-frame runs: apiReceiveApiFrame while a frame arrives in pieces *)

\* a transmit status as the module sends it
TxStatusFrame == ModuleFrame(<<XBEE_API_TYPE_TX_STATUS, 7, 3>>)

\* every run of consecutive bytes of that frame
FramePieces ==
    {SubSeq(TxStatusFrame, i, j) : i \in 1..Len(TxStatusFrame),
                                   j \in 1..Len(TxStatusFrame)} \ {<<>>}

InitFields == InitWith({1}, {0}, ReadTimeoutWait) /\ ~txStatusReceived

NextFields ==
    \/ hist.calls < MaxFieldCalls /\ ReceiveCall
    \/ ReadStep
    \/ ReceiveReturn
    \/ \E piece \in FramePieces : Arrive(piece)
    \/ Arrive(<<PORT_READ_FAILED>>)

SpecFields == InitFields /\ [][NextFields]_vars

\* the error code of each field
FieldCode ==
    [start |-> API_RECEIVE_ERROR_TIMEOUT_START_DELIMITER,
     length |-> API_RECEIVE_ERROR_TIMEOUT_LENGTH,
     data |-> API_RECEIVE_ERROR_TIMEOUT_DATA,
     checksum |-> API_RECEIVE_ERROR_TIMEOUT_CHECKSUM]

\* C26: each of the four fields of an inbound frame (start delimiter,
\* length, payload, checksum) is read with its own timeout budget that
\* starts when that field's read starts, and a timeout in a field makes
\* apiReceiveApiFrame return that field's own error code: the clock of a
\* field starts at zero when the receive moves on to it, a field is polled
\* for UART_READ_TIMEOUT_MS from then whatever the earlier fields took, and
\* the timeout of a field ends the receive with the code of that field.
C26_FieldBudgets ==
    [][/\ (pc' = "read" /\ (pc # "read" \/ rd'.field # rd.field))
          => /\ rd'.startTime = now'
             /\ rd'.total = 0
       /\ pc' = "read" => now' - rd'.startTime <= UART_READ_TIMEOUT_MS
       /\ (pc = "read" /\ pc' = "received"
           /\ rd'.status \notin {API_RECEIVE_SUCCESS,
                                  API_RECEIVE_ERROR_INVALID_START_DELIMITER,
                                  API_RECEIVE_ERROR_FRAME_TOO_LARGE,
                                  API_RECEIVE_ERROR_INVALID_CHECKSUM})
          => /\ rd'.status = FieldCode[rd.field]
             /\ now - rd.startTime = UART_READ_TIMEOUT_MS
       /\ (pc = "read" /\ now - rd.startTime < UART_READ_TIMEOUT_MS)
          => ~FieldTimedOut'
       /\ (op = "receive" /\ pc = "received" /\ op' = "idle")
          => ret' = <<rd.status>>]_vars

\* the checksum has timed out after every earlier field had used most of
\* its own budget
C26_Witness ==
    /\ op = "idle"
    /\ ret = <<API_RECEIVE_ERROR_TIMEOUT_CHECKSUM>>
    /\ now > 2 * UART_READ_TIMEOUT_MS
    /\ Len(frame.data) = 3

\* C27: when the transport's read reports a failure (negative return
\* value), readBytesWithTimeout returns API_RECEIVE_ERROR_UART_FAILURE
\* instead of continuing to poll: the poll at which the read fails is the
\* last one of the receive, which never ends with success after it.
C27_ReadFailure ==
    [][(pc = "read" /\ ReadFailed(rx) /\ rx' = Tail(rx))
       => /\ pc' = "received"
          /\ rd'.status # API_RECEIVE_SUCCESS
          /\ (now - rd.startTime < UART_READ_TIMEOUT_MS
              => rd'.status = API_RECEIVE_ERROR_UART_FAILURE)]_vars

-----------------------------------------------------------------------------
(* Mixed runs: the host calls XBeeLRProcess, apiSendAtCommandAndGetResponse
   and XBeeLRSendData in any order while the module sends frames of several
   types *)

OrderTimeouts == {4}

OrderFrames ==
    {ModuleFrame(AtResponse(1, atCommandToString("AT_JS"), 0, <<1>>)),
     ModuleFrame(<<XBEE_API_TYPE_TX_STATUS, 1, 0>>),
     ModuleFrame(<<XBEE_API_TYPE_MODEM_STATUS, 0>>),
     ModuleFrame(<<XBEE_API_TYPE_LR_RX_PACKET, 2, 170, 187>>)}

InitOrder == InitWith({1}, {0}, ReadTimeoutWait) /\ ~txStatusReceived

NextOrder ==
    \/ hist.calls < MaxOrderCalls /\ ProcessCall
    \/ \E T \in OrderTimeouts :
          hist.calls < MaxOrderCalls /\ AtCmdCall("AT_JS", <<>>, TRUE, T)
    \/ hist.calls < MaxOrderCalls /\ SendDataCall(2, 3, <<170, 187>>)
    \/ PromptWrite
    \/ AtCmdSent
    \/ SendDataSent
    \/ ReadStep
    \/ AtCmdLoop
    \/ SendDataLoop
    \/ ProcessReturn
    \/ \E f \in OrderFrames :
          (op = "idle" \/ now <= OrderArriveBy) /\ Arrive(f)

SpecOrder == InitOrder /\ [][NextOrder]_vars

\* a step in which a frame is handed to apiHandleFrame
HandsOver == Len(handled') = Len(handled) + 1

\* C35: the delivery status returned by XBeeLRSendData comes from a
\* transmit-status frame whose frame id equals the frame id of the packet
\* just sent: a transmit-status frame that belongs to an earlier send and is
\* still unread on the transport is never reported as the outcome of the
\* current send.
C35_OwnTransmitStatus ==
    [][(op = "sendData" /\ pc = "received" /\ op' = "idle"
        /\ txStatusReceived')
       => /\ ret' = <<DataAt(frame, 2)>>
          /\ DataAt(frame, 1) = lr.frameId]_vars

\* the k-th frame the module sent ends where the driver has read up to
EndsAtReadPosition(k) == TotalLen(hist.arrived, k + 1) = Len(rx)

\* C30: well-formed frames are handed to the handlers strictly in the order
\* in which they arrived on the transport, across any sequence of
\* XBeeLRProcess calls and of waits inside apiSendAtCommandAndGetResponse
\* and XBeeLRSendData: every frame handed to apiHandleFrame is the arrived
\* frame that ends at the position up to which the byte stream has been
\* read (a position that only advances), and the frame handed over before
\* it in the same call arrived earlier.
C30_ArrivalOrder ==
    [][HandsOver
       => \E k \in 1..Len(hist.arrived) :
             /\ EndsAtReadPosition(k)
             /\ DataOf(hist.arrived[k]) = handled'[Len(handled')].data
             /\ rx' = rx
             /\ handled # <<>>
                => \E j \in 1..(k - 1) :
                      DataOf(hist.arrived[j]) = handled[Len(handled)].data]_vars

\* XBeeLRSendData returned on the transmit status the module sent first, and
\* a later XBeeLRProcess handed over the packet that arrived after it
C30_Witness ==
    /\ hist.calls = 2
    /\ op = "idle"
    /\ lr.payload = <<170, 187>>
    /\ txStatusReceived
    /\ hist.arrived = <<ModuleFrame(<<XBEE_API_TYPE_TX_STATUS, 1, 0>>),
                        ModuleFrame(<<XBEE_API_TYPE_LR_RX_PACKET, 2, 170,
                                      187>>)>>
    /\ rx = <<>>
    /\ Len(handled) = 1
    /\ handled[1].data = DataOf(hist.arrived[2])
    /\ Len(cb) = 1
    /\ cb[1].event = "OnReceive"

-----------------------------------------------------------------------------
(* Bit-flip runs: one well-formed frame waits on the line, at most one bit
   of its type, payload or checksum is inverted, and the host calls
   apiReceiveApiFrame *)

\* the byte b with bit k inverted
FlipBit(b, k) ==
    IF (b \div (2 ^ k)) % 2 = 1 THEN b - 2 ^ k ELSE b + 2 ^ k

FlipFrames ==
    {TxStatusFrame,
     ModuleFrame(<<XBEE_API_TYPE_MODEM_STATUS, 0>>),
     ModuleFrame(<<XBEE_API_TYPE_LR_RX_PACKET, 2, 255, 128>>),
     <<START_DELIMITER, 0, 0, 255>>}

\* bit k of the i-th byte on the line is inverted; the bytes from the fourth
\* on are the type, the payload and the checksum
BitFlip(i, k) ==
    /\ op = "idle"
    /\ hist.calls = 0
    /\ ~hist.noise
    /\ i \in 4..Len(rx)
    /\ rx' = [rx EXCEPT ![i] = FlipBit(@, k)]
    /\ hist' = [hist EXCEPT !.noise = TRUE]
    /\ UNCHANGED <<session, UART_READ_TIMEOUT_MS, now, wire, op, pc, snd, rd,
                   frame, at, ret, resp, handled, cb, lr>>

InitFlip == InitWith({1}, {0}, ReadTimeoutWait) /\ ~txStatusReceived

NextFlip ==
    \/ \E f \in FlipFrames : hist.arrivals = 0 /\ op = "idle" /\ Arrive(f)
    \/ \E i \in 4..8, k \in 0..7 : BitFlip(i, k)
    \/ hist.calls < MaxFlipCalls /\ rx # <<>> /\ ReceiveCall
    \/ ReadStep
    \/ ReceiveReturn

SpecFlip == InitFlip /\ [][NextFlip]_vars

\* the first apiReceiveApiFrame of the run has returned
FirstReceiveReturned == op = "idle" /\ ret # <<>> /\ hist.calls = 1

\* C33: checksum sensitivity: flipping any single bit in the payload or
\* checksum byte of a frame that apiReceiveApiFrame would accept makes
\* apiReceiveApiFrame return API_RECEIVE_ERROR_INVALID_CHECKSUM.
C33_ChecksumSensitivity ==
    FirstReceiveReturned
    => IF hist.noise
       THEN /\ ret = <<API_RECEIVE_ERROR_INVALID_CHECKSUM>>
            /\ rx = <<>>
       ELSE /\ ret = <<API_RECEIVE_SUCCESS>>
            /\ frame.data = DataOf(hist.arrived[1])

\* the top bit of the last payload byte of the RX packet was inverted
C33_Witness ==
    /\ FirstReceiveReturned
    /\ hist.noise
    /\ hist.arrived[1] = ModuleFrame(<<XBEE_API_TYPE_LR_RX_PACKET, 2, 255,
                                       128>>)
    /\ frame.data = <<XBEE_API_TYPE_LR_RX_PACKET, 2, 255, 0>>
    /\ ret = <<API_RECEIVE_ERROR_INVALID_CHECKSUM>>

-----------------------------------------------------------------------------
(* Resynchronisation runs: the line holds a run of bytes that are not 0x7E
   and then one well-formed frame; the host calls XBeeLRProcess as long as
   the line holds bytes *)

GarbageBytes == {0, 85, 125}

GarbageRuns == UNION {[1..n -> GarbageBytes] : n \in 1..MaxGarbage}

ResyncFrames ==
    {TxStatusFrame,
     ModuleFrame(<<XBEE_API_TYPE_LR_RX_PACKET, 2, 170, 187>>),
     ModuleFrame(ExplicitRxData)}

\* the frame has been put on the line, behind the garbage if there is any
FrameOnLine ==
    /\ hist.arrived # <<>>
    /\ Head(hist.arrived[Len(hist.arrived)]) = START_DELIMITER

InitResync == InitWith({1}, {0}, ReadTimeoutPump) /\ ~txStatusReceived

\* the host's loop: XBeeLRProcess is called again while bytes are waiting
ResyncPump ==
    \/ FrameOnLine /\ rx # <<>> /\ ProcessCall
    \/ ReadStep
    \/ ProcessReturn

NextResync ==
    \/ \E g \in GarbageRuns : hist.arrived = <<>> /\ Arrive(g)
    \/ \E f \in ResyncFrames : ~FrameOnLine /\ Arrive(f)
    \/ ResyncPump

\* the host keeps calling and the millisecond clock keeps advancing
SpecResync == InitResync /\ [][NextResync]_vars /\ WF_vars(ResyncPump)

\* the frame that was put on the line
LineFrame == hist.arrived[Len(hist.arrived)]

\* number of garbage bytes that were put on the line ahead of the frame
GarbageLen == TotalLen(hist.arrived, 1) - Len(LineFrame)

\* the frame has been handed to apiHandleFrame and the line is empty
FrameDispatched ==
    /\ FrameOnLine
    /\ op = "idle"
    /\ rx = <<>>
    /\ HandledData = <<DataOf(LineFrame)>>
    /\ hist.calls = GarbageLen + 1

-----------------------------------------------------------------------------
(* Termination runs: each of the blocking operations is called while the
   line stays silent or delivers garbage, a partial frame or a short AT
   response.  portUartWrite takes all, some or none of the bytes in
   apiSendFrame and apiSendAtCommandAndGetResponse; the frames of the two
   long waits, XBeeLRConnect and XBeeLRSendData, leave in one write or fail. *)

LiveTimeouts == {4}

LiveFrames ==
    {<<85>>,
     <<START_DELIMITER, 0, 3>>,
     ModuleFrame(<<XBEE_API_TYPE_AT_RESPONSE, 1, 74, 83>>)}

InitLive == InitWith({1}, {0}, ReadTimeoutWait) /\ ~txStatusReceived

\* the steps of the operations: they are taken as long as the processor
\* runs and the millisecond clock advances
LiveSteps ==
    \/ op \in {"sendFrame", "atCmd"} /\ WriteStep
    \/ op \in {"connect", "sendData"} /\ PromptWrite
    \/ SendFrameReturn
    \/ ReadStep
    \/ ReceiveReturn
    \/ AtCmdSent
    \/ AtCmdLoop
    \/ ConnectJoinSent
    \/ ConnectQuerySent
    \/ ConnectLoop
    \/ ConnectQueried
    \/ SendDataSent
    \/ SendDataLoop

NextLive ==
    \/ hist.calls < MaxLiveCalls /\ SendFrameCall(0, <<>>)
    \/ hist.calls < MaxLiveCalls /\ ReceiveCall
    \/ \E T \in LiveTimeouts :
          hist.calls < MaxLiveCalls /\ AtCmdCall("AT_JS", <<>>, TRUE, T)
    \/ hist.calls < MaxLiveCalls /\ ConnectCall
    \/ hist.calls < MaxLiveCalls /\ SendDataCall(2, 3, <<170, 187>>)
    \/ LiveSteps
    \/ \E f \in LiveFrames :
          /\ op # "idle"
          /\ hist.arrivals = 0
          /\ now <= LiveArriveBy
          /\ Arrive(f)

SpecLive == InitLive /\ [][NextLive]_vars /\ WF_vars(LiveSteps)

====
